---- MODULE Spec2Model ----
(***************************************************************************)
(* HisniHeroj household task manager: the scheduled jobs of                *)
(* models/database.js (daily / weekly assignment generator, overdue        *)
(* sweeper), the points ledger, and the claim / completion / fulfil        *)
(* request handlers of routes/rewards.js and routes/completions.js.        *)
(*                                                                         *)
(* The relational store is the shared state.  A statement sent through     *)
(* the pool (query / queryOne) runs in autocommit mode and reads the       *)
(* committed rows; statements sent through a transaction's connection      *)
(* become visible at commit, and an UPDATE of a row holds that row's lock  *)
(* until the transaction ends.  Every await is a point where another       *)
(* request may run.                                                        *)
(***************************************************************************)
EXTENDS Integers, Sequences, FiniteSets, TLC

\* ------------------------------------------------------------------ bounds
MaxDay == 7               \* last day the clock reaches in SpecGen
MaxAssignments == 5       \* rows of task_assignments in SpecGen
MaxManual == 1            \* manual assignments precede the generated ones
MaxSweepDay == 2          \* last day the clock reaches in SpecSweep
MaxSweepAssignments == 2  \* rows of task_assignments in SpecSweep
InitialQuantity == 1      \* rewards.quantity at the start
MaxCompletions == 3       \* rows of task_completions in SpecLedger
MaxLedgerClaims == 1      \* rows of reward_claims in SpecLedger
MaxWeeklyDay == 14        \* last day the clock reaches in SpecWeekly
MaxScopeClaims == 2       \* rows of reward_claims in SpecScope
MaxBulk == 2              \* items of a POST /assignments/bulk request
MaxAssignRows == 3        \* rows of task_assignments in SpecAssign
MaxEditHour == 26         \* last hour of a PUT /completions/:id in SpecEdit

NULL == 0
Users == {1, 2, 3}
Households == {1, 2}
Days == 0..MaxDay

\* ------------------------------------------------------------- date functions
\* A date is a day number; day 0 is Monday 2024-12-23, so day 9 is
\* Wednesday 2025-01-01 and the calendar below covers 2024-12-23 .. 2025-12-31.
EpochDayOfYear == 357
DaysLeftIn2024 == 9

\* MySQL YEAR()
YEAR(d) == IF d < DaysLeftIn2024 THEN 2024 ELSE 2025

\* zero-based day of the year
DayOfYear(d) == IF d < DaysLeftIn2024 THEN EpochDayOfYear + d ELSE d - DaysLeftIn2024

\* MySQL WEEKDAY(): 0 = Monday .. 6 = Sunday
WEEKDAY(d) == d % 7

\* zero-based day of the year of the year's first Sunday
\* (2024-01-07 and 2025-01-05)
FirstSunday(d) == IF YEAR(d) = 2024 THEN 6 ELSE 4

\* MySQL WEEK(date) with the default mode 0: weeks start on Sunday, the
\* days before the year's first Sunday are week 0.
WEEK(d) ==
  IF DayOfYear(d) < FirstSunday(d) THEN 0
  ELSE ((DayOfYear(d) - FirstSunday(d)) \div 7) + 1

\* ------------------------------------------------------------------ tasks
\* Rows of table tasks, task 6 of household 2, the others of household 1; cycle_users is the task's list
\* in task_cycle_users, difficulty_minutes the value the task was created
\* with.
TaskIds == {1, 2, 3, 4, 5, 6}

Task(t) ==
  CASE t = 1 -> [household_id |-> 1, frequency |-> "daily",  is_cyclic |-> TRUE,
                 created_by |-> 1, difficulty_minutes |-> 10, requires_photo |-> FALSE,
                 cycle_users |-> {2, 3}]
    [] t = 2 -> [household_id |-> 1, frequency |-> "daily",  is_cyclic |-> FALSE,
                 created_by |-> 1, difficulty_minutes |-> 15, requires_photo |-> TRUE,
                 cycle_users |-> {}]
    [] t = 3 -> [household_id |-> 1, frequency |-> "weekly", is_cyclic |-> TRUE,
                 created_by |-> 2, difficulty_minutes |-> 20, requires_photo |-> FALSE,
                 cycle_users |-> {}]
    [] t = 4 -> [household_id |-> 1, frequency |-> "weekly", is_cyclic |-> FALSE,
                 created_by |-> 1, difficulty_minutes |-> 10, requires_photo |-> FALSE,
                 cycle_users |-> {}]
    [] t = 6 -> [household_id |-> 2, frequency |-> "daily",  is_cyclic |-> FALSE,
                 created_by |-> 2, difficulty_minutes |-> 15, requires_photo |-> FALSE,
                 cycle_users |-> {}]
    [] OTHER -> [household_id |-> 1, frequency |-> "daily",  is_cyclic |-> FALSE,
                 created_by |-> 2, difficulty_minutes |-> 20, requires_photo |-> FALSE,
                 cycle_users |-> {}]

\* the tasks that are active at the start; tasks 5 and 6 were deleted
StandingTasks == {1, 2, 3, 4}

\* households.created_by_user_id
HouseholdCreator(h) == IF h = 1 THEN 1 ELSE 2

\* household_members rows at the start: every user has a row in household
\* 1, every user but user 1 has a row in household 2.
HasMembershipRow(h, u) == h = 1 \/ u # 1

\* household_members.role at the start: the creators were made owner, user
\* 2 admin of household 1
StandingRole(h, u) ==
  IF u = HouseholdCreator(h) THEN "owner"
  ELSE IF h = 1 /\ u = 2 THEN "admin"
  ELSE "member"

\* Table household_members at the start, in membership_id order.
StandingMembers ==
  <<[household_id |-> 1, user_id |-> 1, role |-> StandingRole(1, 1), is_active |-> TRUE],
    [household_id |-> 1, user_id |-> 2, role |-> StandingRole(1, 2), is_active |-> TRUE],
    [household_id |-> 1, user_id |-> 3, role |-> StandingRole(1, 3), is_active |-> TRUE],
    [household_id |-> 2, user_id |-> 2, role |-> StandingRole(2, 2), is_active |-> TRUE],
    [household_id |-> 2, user_id |-> 3, role |-> StandingRole(2, 3), is_active |-> TRUE]>>

\* household_members.can_create_rewards: set on the rows of user 3
CanCreateRewards(h, u) == u = 3

\* ------------------------------------------------------------------ state
VARIABLES
  today,          \* CURDATE()
  taskActive,     \* tasks.is_active, by task id
  taskMinutes,    \* tasks.difficulty_minutes, by task id
  householdActive, \* households.is_active, by household id
  members,        \* table household_members; the index is membership_id
  rewardActive,   \* rewards.is_active, by reward id
  userActive,     \* users.is_active, by user id
  routeReq,       \* POST /households/join and POST /assignments requests in flight
  assigneeNullable, \* whether column task_assignments.assigned_to accepts NULL
  assignments,    \* table task_assignments; the index is assignment_id
  lastOp,         \* the operation that made the last step
  completions,    \* table task_completions; the index is completion_id
  rewardQty,      \* rewards.quantity, by reward id
  claims,         \* table reward_claims, a set of rows
  nextClaimId,    \* AUTO_INCREMENT of reward_claims
  rewardLock,     \* the claim request whose transaction holds the rewards row
  claimReq,       \* POST /rewards/:id/claim requests in flight
  opReq,          \* fulfil / reject / cancel requests in flight
  assignLock,     \* <<assignment, request>>: the transaction of the request holds the row's lock
  complReq,       \* POST /completions requests in flight
  ledger          \* the last result of calculateUserPoints and of the claim's points query

houseVars == <<householdActive, members, rewardActive, userActive, routeReq>>
schedVars == <<today, taskActive, taskMinutes, houseVars, assigneeNullable, assignments>>
rewardVars == <<rewardQty, claims, nextClaimId, rewardLock, claimReq, opReq>>
complVars == <<assignLock, complReq>>
reqVars == <<completions, rewardQty, claims, nextClaimId, rewardLock, claimReq, opReq,
             assignLock, complReq, ledger>>
vars == <<today, taskActive, taskMinutes, houseVars, assigneeNullable, assignments, lastOp, completions, rewardQty,
          claims, nextClaimId, rewardLock, claimReq, opReq, assignLock, complReq, ledger>>

AssignmentIds == DOMAIN assignments

MembershipIds == DOMAIN members

\* the active rows of the pair: WHERE hm.household_id = ? AND hm.user_id = ?
\* AND hm.is_active = 1
ActiveRows(h, u) ==
  {i \in MembershipIds :
     members[i].household_id = h /\ members[i].user_id = u /\ members[i].is_active}

IsActiveMember(h, u) == ActiveRows(h, u) # {}

\* hm.role of the row queryOne returns (the first one)
Role(h, u) ==
  IF ActiveRows(h, u) = {} THEN "none"
  ELSE members[CHOOSE i \in ActiveRows(h, u) : \A j \in ActiveRows(h, u) : i <= j].role

\* ------------------------------------------------- assignment generator (SQL)
\* household_members hm WHERE hm.household_id = t.household_id AND hm.is_active = 1
ActiveMembers(h) == {u \in Users : IsActiveMember(h, u)}

\* SELECT COUNT(*) FROM task_assignments ta2
\*  WHERE ta2.task_id = t.task_id AND ta2.assigned_to = hm.user_id
AssignmentCount(t, u) ==
  Cardinality({i \in AssignmentIds :
                 assignments[i].task_id = t /\ assignments[i].assigned_to = u})

\* Mutant of CyclicAssignee: ORDER BY (count) ASC, hm.user_id DESC.
CyclicAssigneeDesc(t) ==
  LET cands == ActiveMembers(Task(t).household_id) IN
  IF cands = {} THEN NULL
  ELSE CHOOSE u \in cands :
         \A v \in cands :
           \/ AssignmentCount(t, u) < AssignmentCount(t, v)
           \/ (AssignmentCount(t, u) = AssignmentCount(t, v) /\ u >= v)

\* ORDER BY (count) ASC, hm.user_id ASC LIMIT 1; NULL when there is no row
CyclicAssignee(t) ==
  LET cands == ActiveMembers(Task(t).household_id) IN
  IF cands = {} THEN NULL
  ELSE CHOOSE u \in cands :
         \A v \in cands :
           \/ AssignmentCount(t, u) < AssignmentCount(t, v)
           \/ (AssignmentCount(t, u) = AssignmentCount(t, v) /\ u <= v)

\* SELECT ta_prev.assigned_to ... ORDER BY ta_prev.created_at DESC LIMIT 1
LastAssignee(t) ==
  LET prev == {i \in AssignmentIds : assignments[i].task_id = t} IN
  IF prev = {} THEN NULL
  ELSE assignments[CHOOSE i \in prev : \A j \in prev : j <= i].assigned_to

\* CASE WHEN t.is_cyclic = 1 THEN (...) ELSE (...) END as assigned_to
NewAssignee(t) == IF Task(t).is_cyclic THEN CyclicAssignee(t) ELSE LastAssignee(t)

\* Mutant of DailySelected: the NOT EXISTS test looks at yesterday's rows.
DailySelectedStale ==
  {t \in TaskIds :
     /\ Task(t).frequency = "daily"
     /\ taskActive[t]
     /\ ~ \E i \in DOMAIN assignments :
            assignments[i].task_id = t /\ assignments[i].due_date = today - 1}

\* WHERE t.frequency = 'daily' AND t.is_active = 1 AND NOT EXISTS (... due_date = CURDATE())
DailySelected ==
  {t \in TaskIds :
     /\ Task(t).frequency = "daily"
     /\ taskActive[t]
     /\ ~ \E i \in AssignmentIds :
            assignments[i].task_id = t /\ assignments[i].due_date = today}

\* DATE_ADD(CURDATE(), INTERVAL (7 - WEEKDAY(CURDATE())) DAY)
WeeklyDueDate == today + (7 - WEEKDAY(today))

\* WHERE t.frequency = 'weekly' AND t.is_active = 1 AND NOT EXISTS
\*   (... WEEK(ta.due_date) = WEEK(CURDATE()) AND YEAR(ta.due_date) = YEAR(CURDATE()))
WeeklySelected ==
  {t \in TaskIds :
     /\ Task(t).frequency = "weekly"
     /\ taskActive[t]
     /\ ~ \E i \in AssignmentIds :
            /\ assignments[i].task_id = t
            /\ WEEK(assignments[i].due_date) = WEEK(today)
            /\ YEAR(assignments[i].due_date) = YEAR(today)}

\* One inserted row; status and is_active take the column defaults.
GeneratedRow(t, due) ==
  [task_id |-> t, assigned_to |-> NewAssignee(t), assigned_by |-> Task(t).created_by,
   due_date |-> due, status |-> "pending", is_active |-> TRUE]

\* The rows of INSERT ... SELECT for the selected tasks, in task_id order.
RECURSIVE GeneratedRows(_, _)
GeneratedRows(sel, due) ==
  IF sel = {} THEN <<>>
  ELSE LET t == CHOOSE x \in sel : \A y \in sel : x <= y IN
       <<GeneratedRow(t, due)>> \o GeneratedRows(sel \ {t}, due)

HasNullAssignee(rows) == \E k \in DOMAIN rows : rows[k].assigned_to = NULL

\* The statement inserts every selected row, unless one has a NULL assignee
\* and the column refuses NULL: then it fails as a whole and the catch
\* block logs it.
InsertGenerated(rows) ==
  IF HasNullAssignee(rows) /\ ~ assigneeNullable
  THEN assignments' = assignments
  ELSE assignments' = assignments \o rows

generateDailyAssignments ==
  /\ Len(assignments) + Cardinality(DailySelected) <= MaxAssignments
  /\ InsertGenerated(GeneratedRows(DailySelected, today))
  /\ lastOp' = "daily"
  /\ UNCHANGED <<today, taskActive, taskMinutes, houseVars, assigneeNullable>>
  /\ UNCHANGED reqVars

generateWeeklyAssignments ==
  /\ Len(assignments) + Cardinality(WeeklySelected) <= MaxAssignments
  /\ InsertGenerated(GeneratedRows(WeeklySelected, WeeklyDueDate))
  /\ lastOp' = "weekly"
  /\ UNCHANGED <<today, taskActive, taskMinutes, houseVars, assigneeNullable>>
  /\ UNCHANGED reqVars

\* ------------------------------------------------------------ overdue sweeper
\* Mutant of SweptRow: due_date <= CURDATE().
SweptRowDueToday(a) ==
  IF a.status = "pending" /\ a.due_date <= today
  THEN [a EXCEPT !.status = "overdue"]
  ELSE a

\* Mutant of SweptRow: late work in progress is demoted to pending, so the
\* next run sweeps it.
SweptRowDemoting(a) ==
  IF a.due_date < today /\ a.status = "pending" THEN [a EXCEPT !.status = "overdue"]
  ELSE IF a.due_date < today /\ a.status = "in_progress" THEN [a EXCEPT !.status = "pending"]
  ELSE a

\* UPDATE task_assignments SET status = 'overdue'
\*  WHERE status = 'pending' AND due_date < CURDATE()
SweptRow(a) ==
  IF a.status = "pending" /\ a.due_date < today
  THEN [a EXCEPT !.status = "overdue"]
  ELSE a

markOverdueAssignments ==
  /\ assignments' = [i \in AssignmentIds |-> SweptRow(assignments[i])]
  /\ lastOp' = "sweep"
  /\ UNCHANGED <<today, taskActive, taskMinutes, houseVars, assigneeNullable>>
  /\ UNCHANGED reqVars

\* ------------------------------------------------------------------- clock
\* Midnight passes.
NextDay(limit) ==
  /\ today < limit
  /\ today' = today + 1
  /\ lastOp' = "tick"
  /\ UNCHANGED <<taskActive, taskMinutes, houseVars, assigneeNullable, assignments>>
  /\ UNCHANGED reqVars

\* ------------------------------------------------- routes/assignments.js
\* Due dates a request may carry (Joi.date().min('now')).
ManualDueDates == {today, today + 1}

\* Statuses PUT /assignments/:id/status accepts (assignmentSchemas.updateStatus).
UpdatableStatuses == {"assigned", "in_progress", "completed", "cancelled"}

\* POST /assignments: the task is active and the actor an active member of
\* its household with the right to assign; the assignee is an active member;
\* no active pending assignment of the pair exists; then the row is inserted.
createAssignment(actor, t, u, due) ==
  /\ taskActive[t]
  /\ IsActiveMember(Task(t).household_id, actor)
  /\ Role(Task(t).household_id, actor) \in {"owner", "admin"}
  /\ IsActiveMember(Task(t).household_id, u)
  /\ ~ \E i \in AssignmentIds :
         /\ assignments[i].task_id = t
         /\ assignments[i].assigned_to = u
         /\ assignments[i].is_active
         /\ assignments[i].status = "pending"
  /\ assignments' = Append(assignments,
       [task_id |-> t, assigned_to |-> u, assigned_by |-> actor,
        due_date |-> due, status |-> "pending", is_active |-> TRUE])
  /\ lastOp' = "create"
  /\ UNCHANGED <<today, taskActive, taskMinutes, houseVars, assigneeNullable>>
  /\ UNCHANGED reqVars

\* PUT /assignments/:id/status by the assignee of an active assignment that
\* is not completed.
updateAssignmentStatus(actor, i, st) ==
  /\ assignments[i].assigned_to = actor
  /\ assignments[i].is_active
  /\ assignments[i].status # "completed"
  /\ assignments' = [assignments EXCEPT ![i].status = st]
  /\ lastOp' = "status"
  /\ UNCHANGED <<today, taskActive, taskMinutes, houseVars, assigneeNullable>>
  /\ UNCHANGED reqVars

\* DELETE /assignments/:id by the assignee or the assigner: soft delete.
cancelAssignment(actor, i) ==
  /\ assignments[i].is_active
  /\ actor \in {assignments[i].assigned_to, assignments[i].assigned_by}
  /\ assignments[i].status # "completed"
  /\ assignments' = [assignments EXCEPT ![i].is_active = FALSE]
  /\ lastOp' = "cancel"
  /\ UNCHANGED <<today, taskActive, taskMinutes, houseVars, assigneeNullable>>
  /\ UNCHANGED reqVars

\* POST /households/:id/leave: anyone but the creator deactivates their
\* membership.
leaveHousehold(h, u) ==
  /\ IsActiveMember(h, u)
  /\ u # HouseholdCreator(h)
  /\ members' = [i \in MembershipIds |->
       IF members[i].household_id = h /\ members[i].user_id = u
       THEN [members[i] EXCEPT !.is_active = FALSE] ELSE members[i]]
  /\ lastOp' = "leave"
  /\ UNCHANGED <<today, taskActive, taskMinutes, assigneeNullable, assignments>>
  /\ UNCHANGED <<householdActive, rewardActive, userActive, routeReq>>
  /\ UNCHANGED reqVars

\* ------------------------------------------------------------ rewards
\* Rows of table rewards: rewards 1 and 2 of household 1, reward 3 of household 2.
RewardIds == {1, 2, 3}

Reward(r) == [household_id |-> IF r = 3 THEN 2 ELSE 1,
              cost_points |-> IF r = 1 THEN 20 ELSE 10]

\* the rewards of household 1
HomeRewards == {r \in RewardIds : Reward(r).household_id = 1}

\* request slots: two claim requests, two fulfil / reject / cancel requests
\* and two completion requests can be in flight
ClaimReqs == {1, 2}
OpReqs == {1, 2}
ComplReqs == {1, 2}

ClaimIdle == [pc |-> "idle", user |-> NULL, reward_id |-> NULL, claim_id |-> NULL,
              available_points |-> 0, result |-> "none"]
OpIdle == [pc |-> "idle", kind |-> "none", actor |-> NULL, claim_id |-> NULL,
           result |-> "none"]
ComplIdle == [pc |-> "idle", route |-> "none", user |-> NULL, assignment_id |-> NULL,
              req_task_id |-> NULL, photo |-> FALSE, task_id |-> NULL, points |-> 0,
              result |-> "none"]
NoLedger == [user |-> NULL, household |-> NULL, query |-> "none", total_earned |-> 0, total_spent |-> 0,
             current_points |-> 0]

RouteReqs == {1, 2}
RouteIdle == [pc |-> "idle", route |-> "none", user |-> NULL, household |-> NULL,
              task |-> NULL, assignee |-> NULL, due |-> NULL, stmt |-> 0,
              completion |-> NULL, comment |-> "undefined", now |-> 0,
              assignment |-> NULL, status |-> "none",
              result |-> "none"]

\* both households with their standing members, every reward and every
\* user active, no request in flight
HouseInit ==
  /\ householdActive = [h \in Households |-> TRUE]
  /\ members = StandingMembers
  /\ rewardActive = [r \in RewardIds |-> TRUE]
  /\ userActive = [u \in Users |-> TRUE]
  /\ routeReq = [k \in RouteReqs |-> RouteIdle]

\* no request in flight, empty reward_claims
NoRequests ==
  /\ claims = {}
  /\ nextClaimId = 1
  /\ rewardLock = [r \in RewardIds |-> NULL]
  /\ claimReq = [q \in ClaimReqs |-> ClaimIdle]
  /\ opReq = [p \in OpReqs |-> OpIdle]
  /\ assignLock = {}
  /\ complReq = [q \in ComplReqs |-> ComplIdle]
  /\ ledger = NoLedger

\* -------------------------------------------------------------- the ledger
CompletionIds == DOMAIN completions

\* A joined row is <<completion_id, claim_id>>, NULL where the LEFT JOIN
\* found no partner.
RECURSIVE SumEarned(_)
SumEarned(rows) ==
  IF rows = {} THEN 0
  ELSE LET x == CHOOSE y \in rows : TRUE IN
       (IF x[1] = NULL THEN 0 ELSE completions[x[1]].points_earned)
         + SumEarned(rows \ {x})

ClaimRow(id) == CHOOSE c \in claims : c.claim_id = id

RECURSIVE SumSpent(_)
SumSpent(rows) ==
  IF rows = {} THEN 0
  ELSE LET x == CHOOSE y \in rows : TRUE IN
       (IF x[2] = NULL THEN 0 ELSE ClaimRow(x[2]).points_spent)
         + SumSpent(rows \ {x})

\* reward_claims rc ON ... = rc.claimed_by AND rc.status = 'fulfilled'
FulfilledClaimIds(u) ==
  {c.claim_id : c \in {x \in claims : x.claimed_by = u /\ x.status = "fulfilled"}}

\* a LEFT JOIN keeps the left row when the right side is empty
OrNull(S) == IF S = {} THEN {NULL} ELSE S

\* calculateUserPoints: FROM users u LEFT JOIN task_completions tc
\*   LEFT JOIN reward_claims rc ... WHERE u.user_id = ? GROUP BY u.user_id
UserPointsRows(u) ==
  OrNull({i \in CompletionIds : completions[i].completed_by = u})
    \X OrNull(FulfilledClaimIds(u))

calculateUserPoints(u) ==
  [total_earned |-> SumEarned(UserPointsRows(u)),
   total_spent |-> SumSpent(UserPointsRows(u)),
   current_points |-> SumEarned(UserPointsRows(u)) - SumSpent(UserPointsRows(u))]

\* POST /rewards/:id/claim, available_points: FROM task_completions tc
\*   LEFT JOIN reward_claims rc ... JOIN task_assignments ta JOIN tasks t
\*   WHERE tc.completed_by = ? AND t.household_id = ?
AvailablePointsRows(u, h) ==
  {i \in CompletionIds :
     /\ completions[i].completed_by = u
     /\ completions[i].assignment_id \in AssignmentIds
     /\ Task(assignments[completions[i].assignment_id].task_id).household_id = h}
    \X OrNull(FulfilledClaimIds(u))

AvailablePoints(u, h) ==
  SumEarned(AvailablePointsRows(u, h)) - SumSpent(AvailablePointsRows(u, h))

SchedInit ==
  /\ today = 0
  /\ taskActive = [t \in TaskIds |-> t \in StandingTasks]
  /\ taskMinutes = [t \in TaskIds |-> Task(t).difficulty_minutes]
  /\ HouseInit
  /\ assigneeNullable \in BOOLEAN
  /\ assignments = <<>>
  /\ lastOp = "init"
  /\ completions = <<>>
  /\ rewardQty = [r \in RewardIds |-> InitialQuantity]
  /\ NoRequests

\* Generator runs, manual assignments and members leaving.
GenNext ==
  \/ generateDailyAssignments
  \/ generateWeeklyAssignments
  \/ NextDay(MaxDay)
  \/ \E t \in {2, 4}, u \in {2, 3} :
       /\ Len(assignments) < MaxManual
       /\ createAssignment(HouseholdCreator(Task(t).household_id), t, u, today)
  \/ \E u \in Users : leaveHousehold(1, u)

SpecGen == SchedInit /\ [][GenNext]_vars

\* The sweeper among manual assignments, status updates and cancellations.
SweepNext ==
  \/ markOverdueAssignments
  \/ NextDay(MaxSweepDay)
  \/ \E u \in {2, 3}, due \in ManualDueDates :
       /\ Len(assignments) < MaxSweepAssignments
       /\ createAssignment(HouseholdCreator(Task(1).household_id), 1, u, due)
  \/ \E i \in AssignmentIds, st \in UpdatableStatuses \ {"assigned"} :
       updateAssignmentStatus(assignments[i].assigned_to, i, st)
  \/ \E i \in AssignmentIds : cancelAssignment(assignments[i].assigned_to, i)

SpecSweep == SchedInit /\ [][SweepNext]_vars

\* ======================================================================
\* Properties of the scheduled jobs
\* ======================================================================
\* assignment ids inserted by the step
NewRowIds == (Len(assignments) + 1)..Len(assignments')

NewRowsOf(t) == {i \in NewRowIds : assignments'[i].task_id = t}

DailyStep == lastOp' = "daily" /\ today' = today
WeeklyStep == lastOp' = "weekly" /\ today' = today
SweepStep == lastOp' = "sweep" /\ today' = today

\* C3: a run of the daily generator inserts at most one row per daily task,
\* due today, and none for a task that already has a row due today; so
\* however often it runs on one day, it creates at most one row per task
\* and day.
C3_DailyNoDouble ==
  [][DailyStep =>
       /\ \A i \in NewRowIds :
            /\ assignments'[i].due_date = today
            /\ Task(assignments'[i].task_id).frequency = "daily"
       /\ \A t \in TaskIds :
            /\ Cardinality(NewRowsOf(t)) <= 1
            /\ (\E i \in AssignmentIds :
                  assignments[i].task_id = t /\ assignments[i].due_date = today)
               => NewRowsOf(t) = {}]_vars

\* a daily run has happened on a later day, and every active daily task
\* has exactly one row due that day
C3_Witness ==
  /\ lastOp = "daily"
  /\ today > 0
  /\ \A t \in {1, 2} :
       Cardinality({i \in AssignmentIds :
         assignments[i].task_id = t /\ assignments[i].due_date = today}) = 1

\* C4 (as claimed): a weekly run that directly follows a weekly run of the
\* same week creates nothing for a task that already has the row of that
\* week (due on the upcoming Monday).
C4_WeeklyNoDouble ==
  [][(WeeklyStep /\ lastOp = "weekly") =>
       \A t \in TaskIds :
         (\E i \in AssignmentIds :
            assignments[i].task_id = t /\ assignments[i].due_date = WeeklyDueDate)
         => NewRowsOf(t) = {}]_vars

\* C6: every row a generator run inserts for a cyclic task goes to an
\* active member of the task's household with the fewest earlier
\* assignments of the task, the lowest user id among those.
C6_RotationSelection ==
  [][(DailyStep \/ WeeklyStep) =>
       \A i \in NewRowIds :
         LET t == assignments'[i].task_id
             w == assignments'[i].assigned_to IN
         Task(t).is_cyclic =>
           /\ w \in ActiveMembers(Task(t).household_id)
           /\ ~ \E v \in ActiveMembers(Task(t).household_id) :
                  AssignmentCount(t, v) < AssignmentCount(t, w)
           /\ ~ \E v \in ActiveMembers(Task(t).household_id) :
                  AssignmentCount(t, v) = AssignmentCount(t, w) /\ v < w]_vars

\* the daily generator has rotated task 1 through users 1 and 2 while user
\* 3, still active, has none: the first pick was a tie, the second a
\* minimum
C6_Witness ==
  /\ lastOp = "daily"
  /\ \A u \in Users : IsActiveMember(1, u)
  /\ AssignmentCount(1, 1) = 1
  /\ AssignmentCount(1, 2) = 1
  /\ AssignmentCount(1, 3) = 0
  /\ assignments[Len(assignments)].due_date = today

\* C7: a sweeper run that directly follows a sweeper run, on the same date,
\* changes no row.
C7_SweeperIdempotent ==
  [][(SweepStep /\ lastOp = "sweep") => assignments' = assignments]_vars

\* the sweeper has run and an overdue row exists
C7_Witness ==
  /\ lastOp = "sweep"
  /\ \E i \in AssignmentIds :
       assignments[i].status = "overdue" /\ assignments[i].due_date < today

\* C8: a sweeper run turns exactly the pending rows due before today into
\* overdue rows and changes nothing else of any row.
C8_SweeperEffectFrame ==
  [][SweepStep =>
       /\ DOMAIN assignments' = DOMAIN assignments
       /\ \A i \in AssignmentIds :
            IF assignments[i].status = "pending" /\ assignments[i].due_date < today
            THEN assignments'[i] = [assignments[i] EXCEPT !.status = "overdue"]
            ELSE assignments'[i] = assignments[i]]_vars

\* the sweeper has run over a late row it turned overdue and a pending row
\* due today or later, which it left alone
C8_Witness ==
  /\ lastOp = "sweep"
  /\ \E i, j \in AssignmentIds :
       /\ assignments[i].status = "overdue"
       /\ assignments[j].status = "pending"
       /\ assignments[j].due_date >= today

\* ======================================================================
\* The ledger queries over drawn tables
\* ======================================================================
LedgerUsers == {2, 3}
LedgerPoints == {10, 15, 20}
LedgerSpent == {12}
ClaimStatuses == {"pending", "fulfilled", "cancelled"}

SeqsUpTo(S, n) == UNION {[1..k -> S] : k \in 0..n}

\* the sum of points_earned over the user's completion rows
EarnedBy(u) ==
  SumEarned({<<i, NULL>> : i \in {j \in CompletionIds : completions[j].completed_by = u}})

\* the sum of points_spent over the user's fulfilled claims
SpentBy(u) == SumSpent({<<NULL, k>> : k \in FulfilledClaimIds(u)})

\* Completion i of a drawn table completes assignment i, which was assigned
\* to its completer; a claim was made by a user who had earned its points.
LedgerInit ==
  /\ today = 0
  /\ taskActive = [t \in TaskIds |-> t \in StandingTasks]
  /\ taskMinutes = [t \in TaskIds |-> Task(t).difficulty_minutes]
  /\ HouseInit
  /\ assigneeNullable = TRUE
  /\ lastOp = "init"
  /\ rewardQty = [r \in RewardIds |-> InitialQuantity]
  /\ \E cs \in SeqsUpTo(LedgerUsers \X LedgerPoints, MaxCompletions) :
       /\ completions = [i \in DOMAIN cs |->
            [task_id |-> 1, assignment_id |-> i, completed_by |-> cs[i][1],
             points_earned |-> cs[i][2]]]
       /\ assignments = [i \in DOMAIN cs |->
            [task_id |-> 1, assigned_to |-> cs[i][1], assigned_by |-> 1,
             due_date |-> 0, status |-> "completed", is_active |-> TRUE]]
  /\ \E ks \in SeqsUpTo(LedgerUsers \X ClaimStatuses \X LedgerSpent, MaxLedgerClaims) :
       /\ claims = {[claim_id |-> i, reward_id |-> 1, claimed_by |-> ks[i][1],
                     points_spent |-> ks[i][3], status |-> ks[i][2],
                     fulfilled_by |-> IF ks[i][2] = "pending" THEN NULL ELSE 1]
                    : i \in DOMAIN ks}
       /\ nextClaimId = Len(ks) + 1
  /\ \A c \in claims : EarnedBy(c.claimed_by) >= c.points_spent
  /\ rewardLock = [r \in RewardIds |-> NULL]
  /\ claimReq = [q \in ClaimReqs |-> ClaimIdle]
  /\ opReq = [p \in OpReqs |-> OpIdle]
  /\ assignLock = {}
  /\ complReq = [q \in ComplReqs |-> ComplIdle]
  /\ ledger = NoLedger

\* a caller asks calculateUserPoints for a user's points
readUserPoints(u) ==
  /\ ledger' = [user |-> u, household |-> NULL, query |-> "calculateUserPoints",
                total_earned |-> calculateUserPoints(u).total_earned,
                total_spent |-> calculateUserPoints(u).total_spent,
                current_points |-> calculateUserPoints(u).current_points]
  /\ lastOp' = "points"
  /\ UNCHANGED <<schedVars, completions, rewardVars, complVars>>

\* the claim handler asks for a user's available points in a household
readAvailablePoints(u, h) ==
  /\ ledger' = [user |-> u, household |-> h, query |-> "available_points",
                total_earned |-> SumEarned(AvailablePointsRows(u, h)),
                total_spent |-> SumSpent(AvailablePointsRows(u, h)),
                current_points |-> AvailablePoints(u, h)]
  /\ lastOp' = "available"
  /\ UNCHANGED <<schedVars, completions, rewardVars, complVars>>

LedgerNext ==
  \/ \E u \in Users : readUserPoints(u)
  \/ \E u \in Users : readAvailablePoints(u, 1)

SpecLedger == LedgerInit /\ [][LedgerNext]_vars

\* C5 (as claimed): the points computed for a user are the sum of
\* points_earned over the user's completions minus the sum of points_spent
\* over the user's fulfilled claims.
C5_LedgerCorrect ==
  ledger.query # "none" =>
    ledger.current_points = EarnedBy(ledger.user) - SpentBy(ledger.user)

\* ======================================================================
\* routes/rewards.js: claim, fulfil, reject, cancel
\* ======================================================================
\* Steps of POST /rewards/:id/claim.  beginTransaction opens a connection;
\* the two reads go through the pool (queryOne), the INSERT and the UPDATE
\* through the transaction's connection.

\* beginTransaction, the reward query and the checks that follow it
claimReadReward(q, u, r) ==
  /\ claimReq[q].pc = "idle"
  /\ IF ~ IsActiveMember(Reward(r).household_id, u) \/ ~ rewardActive[r]
     THEN claimReq' = [claimReq EXCEPT ![q] =
            [@ EXCEPT !.pc = "done", !.user = u, !.reward_id = r,
                      !.result = "REWARD_NOT_FOUND"]]
     ELSE IF rewardQty[r] <= 0
     THEN claimReq' = [claimReq EXCEPT ![q] =
            [@ EXCEPT !.pc = "done", !.user = u, !.reward_id = r,
                      !.result = "REWARD_NOT_AVAILABLE"]]
     ELSE claimReq' = [claimReq EXCEPT ![q] =
            [@ EXCEPT !.pc = "points", !.user = u, !.reward_id = r]]
  /\ lastOp' = "claim"
  /\ UNCHANGED <<schedVars, completions, rewardQty, claims, nextClaimId, rewardLock,
                 opReq, complVars, ledger>>

\* the available_points query and the check that follows it
claimReadPoints(q) ==
  /\ claimReq[q].pc = "points"
  /\ LET pts == AvailablePoints(claimReq[q].user,
                                Reward(claimReq[q].reward_id).household_id) IN
     IF pts < Reward(claimReq[q].reward_id).cost_points
     THEN claimReq' = [claimReq EXCEPT ![q] =
            [@ EXCEPT !.pc = "done", !.available_points = pts,
                      !.result = "INSUFFICIENT_POINTS"]]
     ELSE claimReq' = [claimReq EXCEPT ![q] =
            [@ EXCEPT !.pc = "insert", !.available_points = pts]]
  /\ lastOp' = "claim"
  /\ UNCHANGED <<schedVars, completions, rewardQty, claims, nextClaimId, rewardLock,
                 opReq, complVars, ledger>>

\* INSERT INTO reward_claims, inside the transaction: the row takes the next
\* claim_id and stays invisible until the commit
claimInsert(q) ==
  /\ claimReq[q].pc = "insert"
  /\ claimReq' = [claimReq EXCEPT ![q] =
       [@ EXCEPT !.pc = "decrement", !.claim_id = nextClaimId]]
  /\ nextClaimId' = nextClaimId + 1
  /\ lastOp' = "claim"
  /\ UNCHANGED <<schedVars, completions, rewardQty, claims, rewardLock,
                 opReq, complVars, ledger>>

\* UPDATE rewards SET quantity = quantity - 1, inside the transaction: it
\* waits for the row lock and holds it until the commit
claimDecrement(q) ==
  /\ claimReq[q].pc = "decrement"
  /\ rewardLock[claimReq[q].reward_id] = NULL
  /\ rewardLock' = [rewardLock EXCEPT ![claimReq[q].reward_id] = q]
  /\ claimReq' = [claimReq EXCEPT ![q] = [@ EXCEPT !.pc = "commit"]]
  /\ lastOp' = "claim"
  /\ UNCHANGED <<schedVars, completions, rewardQty, claims, nextClaimId,
                 opReq, complVars, ledger>>

\* the claim row the transaction inserted: status and fulfiller take the
\* column defaults
InsertedClaim(q) ==
  [claim_id |-> claimReq[q].claim_id, reward_id |-> claimReq[q].reward_id,
   claimed_by |-> claimReq[q].user,
   points_spent |-> Reward(claimReq[q].reward_id).cost_points,
   status |-> "pending", fulfilled_by |-> NULL]

\* commitTransaction and the 201 response
claimCommit(q) ==
  /\ claimReq[q].pc = "commit"
  /\ claims' = claims \cup {InsertedClaim(q)}
  /\ rewardQty' = [rewardQty EXCEPT ![claimReq[q].reward_id] = @ - 1]
  /\ rewardLock' = [rewardLock EXCEPT ![claimReq[q].reward_id] = NULL]
  /\ claimReq' = [claimReq EXCEPT ![q] = [@ EXCEPT !.pc = "done", !.result = "CLAIMED"]]
  /\ lastOp' = "claim"
  /\ UNCHANGED <<schedVars, completions, nextClaimId, opReq, complVars, ledger>>

\* A statement of the transaction throws (the INSERT, the UPDATE or the
\* COMMIT): the catch block rolls the transaction back and answers 500.
claimFail(q) ==
  /\ claimReq[q].pc \in {"insert", "decrement", "commit"}
  /\ rewardLock' = [r \in RewardIds |-> IF rewardLock[r] = q THEN NULL ELSE rewardLock[r]]
  /\ claimReq' = [claimReq EXCEPT ![q] =
       [@ EXCEPT !.pc = "done", !.result = "CLAIM_REWARD_ERROR"]]
  /\ lastOp' = "claim"
  /\ UNCHANGED <<schedVars, completions, rewardQty, claims, nextClaimId,
                 opReq, complVars, ledger>>

\* The transaction commits and the query that fetches the claim for the
\* response throws: the catch block answers 500, its rollback comes after
\* the commit.
claimFetchFail(q) ==
  /\ claimReq[q].pc = "commit"
  /\ claims' = claims \cup {InsertedClaim(q)}
  /\ rewardQty' = [rewardQty EXCEPT ![claimReq[q].reward_id] = @ - 1]
  /\ rewardLock' = [rewardLock EXCEPT ![claimReq[q].reward_id] = NULL]
  /\ claimReq' = [claimReq EXCEPT ![q] =
       [@ EXCEPT !.pc = "done", !.result = "CLAIM_REWARD_ERROR"]]
  /\ lastOp' = "claim"
  /\ UNCHANGED <<schedVars, completions, nextClaimId, opReq, complVars, ledger>>

\* ------------------------------------------------ fulfil / reject / cancel
ClaimExists(id) == \E c \in claims : c.claim_id = id

\* the household of the claim's reward
ClaimHousehold(id) == Reward(ClaimRow(id).reward_id).household_id

OpDone(p, kind, actor, id, res) ==
  opReq' = [opReq EXCEPT ![p] =
    [pc |-> "done", kind |-> kind, actor |-> actor, claim_id |-> id, result |-> res]]

OpGoesOn(p, kind, actor, id) ==
  opReq' = [opReq EXCEPT ![p] =
    [pc |-> "write", kind |-> kind, actor |-> actor, claim_id |-> id, result |-> "none"]]

\* the status test of POST /rewards/claims/:id/fulfill
FulfilRefused(status) == status = "fulfilled"

\* POST /rewards/claims/:id/fulfill up to its UPDATE: the claim is read,
\* the actor's membership and permission and the claim's status are checked
fulfilRead(p, actor, id) ==
  /\ opReq[p].pc = "idle"
  /\ IF ~ ClaimExists(id) THEN OpDone(p, "fulfil", actor, id, "CLAIM_NOT_FOUND")
     ELSE IF ~ IsActiveMember(ClaimHousehold(id), actor)
     THEN OpDone(p, "fulfil", actor, id, "HOUSEHOLD_ACCESS_DENIED")
     ELSE IF /\ Role(ClaimHousehold(id), actor) \notin {"owner", "admin"}
             /\ ~ CanCreateRewards(ClaimHousehold(id), actor)
     THEN OpDone(p, "fulfil", actor, id, "INSUFFICIENT_PERMISSIONS")
     ELSE IF FulfilRefused(ClaimRow(id).status)
     THEN OpDone(p, "fulfil", actor, id, "CLAIM_ALREADY_FULFILLED")
     ELSE OpGoesOn(p, "fulfil", actor, id)
  /\ lastOp' = "fulfil"
  /\ UNCHANGED <<schedVars, completions, rewardQty, claims, nextClaimId, rewardLock,
                 claimReq, complVars, ledger>>

\* UPDATE reward_claims SET status = 'fulfilled', fulfilled_by_user_id = ?
\*  WHERE claim_id = ?
fulfilWrite(p) ==
  /\ opReq[p].pc = "write"
  /\ opReq[p].kind = "fulfil"
  /\ claims' = {IF c.claim_id = opReq[p].claim_id
                THEN [c EXCEPT !.status = "fulfilled", !.fulfilled_by = opReq[p].actor]
                ELSE c : c \in claims}
  /\ opReq' = [opReq EXCEPT ![p] = [@ EXCEPT !.pc = "done", !.result = "FULFILLED"]]
  /\ lastOp' = "fulfil"
  /\ UNCHANGED <<schedVars, completions, rewardQty, nextClaimId, rewardLock,
                 claimReq, complVars, ledger>>

\* POST /rewards/claims/:id/reject up to its UPDATE
rejectRead(p, actor, id) ==
  /\ opReq[p].pc = "idle"
  /\ IF ~ ClaimExists(id) THEN OpDone(p, "reject", actor, id, "CLAIM_NOT_FOUND")
     ELSE IF \/ ~ IsActiveMember(ClaimHousehold(id), actor)
             \/ Role(ClaimHousehold(id), actor) \notin {"owner", "admin"}
     THEN OpDone(p, "reject", actor, id, "PERMISSION_DENIED")
     ELSE IF ClaimRow(id).status # "pending"
     THEN OpDone(p, "reject", actor, id, "INVALID_STATUS")
     ELSE OpGoesOn(p, "reject", actor, id)
  /\ lastOp' = "reject"
  /\ UNCHANGED <<schedVars, completions, rewardQty, claims, nextClaimId, rewardLock,
                 claimReq, complVars, ledger>>

\* Mutant of rejectWrite: the reward's quantity is given back.
rejectWriteRestoring(p) ==
  /\ opReq[p].pc = "write"
  /\ opReq[p].kind = "reject"
  /\ claims' = {IF c.claim_id = opReq[p].claim_id
                THEN [c EXCEPT !.status = "cancelled", !.fulfilled_by = opReq[p].actor]
                ELSE c : c \in claims}
  /\ rewardQty' = [r \in RewardIds |->
       IF ClaimExists(opReq[p].claim_id) /\ r = ClaimRow(opReq[p].claim_id).reward_id
       THEN rewardQty[r] + 1 ELSE rewardQty[r]]
  /\ opReq' = [opReq EXCEPT ![p] = [@ EXCEPT !.pc = "done", !.result = "REJECTED"]]
  /\ lastOp' = "reject"
  /\ UNCHANGED <<schedVars, completions, nextClaimId, rewardLock,
                 claimReq, complVars, ledger>>

\* UPDATE reward_claims SET status='cancelled', fulfilled_by_user_id=? WHERE claim_id=?
rejectWrite(p) ==
  /\ opReq[p].pc = "write"
  /\ opReq[p].kind = "reject"
  /\ claims' = {IF c.claim_id = opReq[p].claim_id
                THEN [c EXCEPT !.status = "cancelled", !.fulfilled_by = opReq[p].actor]
                ELSE c : c \in claims}
  /\ opReq' = [opReq EXCEPT ![p] = [@ EXCEPT !.pc = "done", !.result = "REJECTED"]]
  /\ lastOp' = "reject"
  /\ UNCHANGED <<schedVars, completions, rewardQty, nextClaimId, rewardLock,
                 claimReq, complVars, ledger>>

\* DELETE /rewards/claims/:id up to its DELETE
cancelRead(p, actor, id) ==
  /\ opReq[p].pc = "idle"
  /\ IF ~ ClaimExists(id) THEN OpDone(p, "cancel", actor, id, "CLAIM_NOT_FOUND")
     ELSE IF ClaimRow(id).claimed_by # actor
     THEN OpDone(p, "cancel", actor, id, "PERMISSION_DENIED")
     ELSE IF ClaimRow(id).status # "pending"
     THEN OpDone(p, "cancel", actor, id, "INVALID_STATUS")
     ELSE OpGoesOn(p, "cancel", actor, id)
  /\ lastOp' = "cancel"
  /\ UNCHANGED <<schedVars, completions, rewardQty, claims, nextClaimId, rewardLock,
                 claimReq, complVars, ledger>>

\* DELETE FROM reward_claims WHERE claim_id = ?
cancelWrite(p) ==
  /\ opReq[p].pc = "write"
  /\ opReq[p].kind = "cancel"
  /\ claims' = {c \in claims : c.claim_id # opReq[p].claim_id}
  /\ opReq' = [opReq EXCEPT ![p] = [@ EXCEPT !.pc = "done", !.result = "CANCELLED"]]
  /\ lastOp' = "cancel"
  /\ UNCHANGED <<schedVars, completions, rewardQty, nextClaimId, rewardLock,
                 claimReq, complVars, ledger>>

\* Users 2 and 3 have each completed an assignment of task 3 and earned its
\* 20 points.
RewardInit ==
  /\ today = 0
  /\ taskActive = [t \in TaskIds |-> t \in StandingTasks]
  /\ taskMinutes = [t \in TaskIds |-> Task(t).difficulty_minutes]
  /\ HouseInit
  /\ assigneeNullable = TRUE
  /\ assignments = [i \in {1, 2} |->
       [task_id |-> 3, assigned_to |-> i + 1, assigned_by |-> 1,
        due_date |-> 0, status |-> "completed", is_active |-> TRUE]]
  /\ completions = [i \in {1, 2} |->
       [task_id |-> 3, assignment_id |-> i, completed_by |-> i + 1,
        points_earned |-> Task(3).difficulty_minutes]]
  /\ lastOp = "init"
  /\ rewardQty = [r \in RewardIds |-> InitialQuantity]
  /\ NoRequests

ClaimIds == 1..(nextClaimId - 1)

RewardNext ==
  \/ \E q \in ClaimReqs, u \in Users : claimReadReward(q, u, 1)
  \/ \E q \in ClaimReqs : claimReadPoints(q)
  \/ \E q \in ClaimReqs : claimInsert(q)
  \/ \E q \in ClaimReqs : claimDecrement(q)
  \/ \E q \in ClaimReqs : claimCommit(q)
  \/ \E p \in OpReqs, actor \in Users, id \in ClaimIds : fulfilRead(p, actor, id)
  \/ \E p \in OpReqs : fulfilWrite(p)
  \/ \E p \in OpReqs, actor \in Users, id \in ClaimIds : rejectRead(p, actor, id)
  \/ \E p \in OpReqs : rejectWrite(p)
  \/ \E p \in OpReqs, actor \in Users, id \in ClaimIds : cancelRead(p, actor, id)
  \/ \E p \in OpReqs : cancelWrite(p)

SpecReward == RewardInit /\ [][RewardNext]_vars

\* the claim requests that ended with the given result
ClaimsEndedWith(res) == {q \in ClaimReqs : claimReq[q].pc = "done" /\ claimReq[q].result = res}

\* the claim requests under way or ended are on the same reward of quantity
\* 1 and by different users, and no claim was fulfilled, rejected or
\* cancelled
TwoClaimants ==
  /\ InitialQuantity = 1
  /\ \A q \in ClaimReqs : claimReq[q].pc # "idle" => claimReq[q].reward_id = 1
  /\ (\A q \in ClaimReqs : claimReq[q].pc # "idle") => claimReq[1].user # claimReq[2].user
  /\ \A p \in OpReqs : opReq[p].pc = "idle"

\* both claim requests have ended and neither claimant was short of points
\* or outside the household
TwoClaimsEnded ==
  /\ TwoClaimants
  /\ \A q \in ClaimReqs : claimReq[q].pc = "done"
  /\ \A q \in ClaimReqs : claimReq[q].result \notin {"REWARD_NOT_FOUND", "INSUFFICIENT_POINTS"}

\* C1 (as claimed): no overselling.  When two claimants with enough points
\* have both finished a claim request on a reward of quantity 1, exactly one
\* request has succeeded, the other was answered REWARD_NOT_AVAILABLE, and
\* the quantity is 0; the quantity is never negative on the way.
C1_NoOverselling ==
  /\ TwoClaimants => rewardQty[1] >= 0
  /\ TwoClaimsEnded =>
       /\ Cardinality(ClaimsEndedWith("CLAIMED")) = 1
       /\ Cardinality(ClaimsEndedWith("REWARD_NOT_AVAILABLE")) = 1
       /\ Cardinality(claims) = 1
       /\ rewardQty[1] = 0

\* the row of claim c after the step, or the empty set when it was deleted
RowAfter(c) == {d \in claims' : d.claim_id = c.claim_id}

\* C9 (as claimed): fulfilled claims are immutable and a claim leaves pending
\* at most once.  No step changes or deletes a claim whose status is
\* fulfilled, and no step changes the status of a claim that is no longer
\* pending.
C9_FulfilledImmutable ==
  [][\A c \in claims :
       /\ c.status = "fulfilled" => RowAfter(c) = {c}
       /\ c.status # "pending" => \A d \in RowAfter(c) : d.status = c.status]_vars

\* the fulfil requests that read their claim in this step
FulfilReads == {p \in OpReqs : opReq[p].pc = "idle" /\ opReq'[p].pc # "idle"
                               /\ opReq'[p].kind = "fulfil"}

\* C10 (as claimed): fulfil is guarded by "must currently be pending".  A
\* fulfil request that reads a claim whose status is not pending ends there
\* and changes nothing, and no step takes a claim from cancelled to
\* fulfilled.
C10_FulfilGuardedByPending ==
  [][/\ \A p \in FulfilReads :
          (ClaimExists(opReq'[p].claim_id)
             /\ ClaimRow(opReq'[p].claim_id).status # "pending")
          => (opReq'[p].pc = "done" /\ opReq'[p].result # "FULFILLED")
     /\ \A c \in claims :
          c.status = "cancelled" => \A d \in RowAfter(c) : d.status # "fulfilled"]_vars

\* ======================================================================
\* routes/completions.js: POST /completions and POST /completions/with-photo
\* ======================================================================
Routes == {"plain", "photo"}

\* a request as it arrives: i is the body's assignment_id and t its task_id
\* (NULL when absent), photo tells whether a proof image came with it
ComplRequest(route, u, i, t, photo) ==
  [pc |-> "idle", route |-> route, user |-> u, assignment_id |-> i, req_task_id |-> t,
   photo |-> photo, task_id |-> NULL, points |-> 0, result |-> "none"]

ComplEnds(k, req, res) ==
  complReq' = [complReq EXCEPT ![k] = [req EXCEPT !.pc = "done", !.result = res]]

\* Mutant of ComplGoesOn: the points are the minutes the task was created
\* with.
ComplGoesOnStale(k, req, t) ==
  complReq' = [complReq EXCEPT ![k] =
    [req EXCEPT !.pc = "insert", !.task_id = t, !.points = Task(t).difficulty_minutes]]

\* the checks passed: pointsEarned = task.difficulty_minutes, as the lookup
\* read it
ComplGoesOn(k, req, t) ==
  complReq' = [complReq EXCEPT ![k] =
    [req EXCEPT !.pc = "insert", !.task_id = t, !.points = taskMinutes[t]]]

\* Mutant of AssignmentFound: the assignee is not part of the WHERE clause.
AssignmentFoundAnyUser(i, u) ==
  /\ i \in AssignmentIds
  /\ assignments[i].is_active

\* the assignment query: WHERE ta.assignment_id = ? AND
\* ta.assigned_to_user_id = ? AND ta.is_active = 1
AssignmentFound(i, u) ==
  /\ i \in AssignmentIds
  /\ assignments[i].assigned_to = u
  /\ assignments[i].is_active

\* the task query of a direct completion: the task is active and the caller
\* an active member of its household
TaskFound(t, u) ==
  /\ taskActive[t]
  /\ IsActiveMember(Task(t).household_id, u)

\* Mutant of AlreadyCompleted: the status is not looked at.
AlreadyCompletedIgnored(i) == FALSE

\* if (assignment.status === 'completed')
AlreadyCompleted(i) == assignments[i].status = "completed"

\* Mutant of PhotoMissing: the proof image is not looked at.
PhotoMissingIgnored(req, t) == FALSE

\* if (task.requires_photo && !proof_image), on the plain route only
PhotoMissing(req, t) == req.route = "plain" /\ Task(t).requires_photo /\ ~ req.photo

\* The handler up to its INSERT.  /with-photo answers PHOTO_REQUIRED
\* without a file before it opens the transaction and has no other photo
\* check; the plain route checks requires_photo after the lookups.
completeRead(k, route, u, i, t, photo) ==
  /\ complReq[k].pc = "idle"
  /\ LET req == ComplRequest(route, u, i, t, photo) IN
     IF route = "photo" /\ ~ photo THEN ComplEnds(k, req, "PHOTO_REQUIRED")
     ELSE IF i # NULL
     THEN IF ~ AssignmentFound(i, u) THEN ComplEnds(k, req, "ASSIGNMENT_NOT_FOUND")
          ELSE IF AlreadyCompleted(i)
          THEN ComplEnds(k, req, "ASSIGNMENT_ALREADY_COMPLETED")
          ELSE IF PhotoMissing(req, assignments[i].task_id)
          THEN ComplEnds(k, req, "PHOTO_REQUIRED")
          ELSE ComplGoesOn(k, req, assignments[i].task_id)
     ELSE IF t # NULL
     THEN IF ~ TaskFound(t, u) THEN ComplEnds(k, req, "TASK_NOT_FOUND")
          ELSE IF PhotoMissing(req, t)
          THEN ComplEnds(k, req, "PHOTO_REQUIRED")
          ELSE ComplGoesOn(k, req, t)
     ELSE IF route = "plain" THEN ComplEnds(k, req, "TASK_OR_ASSIGNMENT_REQUIRED")
     ELSE ComplEnds(k, req, "COMPLETE_TASK_WITH_PHOTO_ERROR")
  /\ lastOp' = "complete"
  /\ UNCHANGED <<schedVars, completions, rewardVars, assignLock, ledger>>

\* INSERT INTO task_completions, inside the transaction; without an
\* assignment there is no UPDATE to follow
completeInsert(k) ==
  /\ complReq[k].pc = "insert"
  /\ complReq' = [complReq EXCEPT ![k] =
       [@ EXCEPT !.pc = IF complReq[k].assignment_id # NULL THEN "update" ELSE "commit"]]
  /\ lastOp' = "complete"
  /\ UNCHANGED <<schedVars, completions, rewardVars, assignLock, ledger>>

LockedAssignments == {l[1] : l \in assignLock}

\* UPDATE task_assignments SET status = 'completed', inside the transaction:
\* it waits for the row lock and holds it until the commit
completeUpdate(k) ==
  /\ complReq[k].pc = "update"
  /\ complReq[k].assignment_id \notin LockedAssignments
  /\ assignLock' = assignLock \cup {<<complReq[k].assignment_id, k>>}
  /\ complReq' = [complReq EXCEPT ![k] = [@ EXCEPT !.pc = "commit"]]
  /\ lastOp' = "complete"
  /\ UNCHANGED <<schedVars, completions, rewardVars, ledger>>

\* the completion row the transaction inserted
InsertedCompletion(k) ==
  [task_id |-> complReq[k].task_id, assignment_id |-> complReq[k].assignment_id,
   completed_by |-> complReq[k].user, points_earned |-> complReq[k].points]

\* commitTransaction and the 201 response (the image row of /with-photo is
\* written in the same transaction)
completeCommit(k) ==
  /\ complReq[k].pc = "commit"
  /\ completions' = Append(completions, InsertedCompletion(k))
  /\ assignments' = IF complReq[k].assignment_id # NULL
                    THEN [assignments EXCEPT ![complReq[k].assignment_id].status = "completed"]
                    ELSE assignments
  /\ assignLock' = {l \in assignLock : l[2] # k}
  /\ complReq' = [complReq EXCEPT ![k] = [@ EXCEPT !.pc = "done", !.result = "COMPLETED"]]
  /\ lastOp' = "complete"
  /\ UNCHANGED <<today, taskActive, taskMinutes, houseVars, assigneeNullable, rewardVars, ledger>>

\* the code of the 500 answer of the route's catch block
CompleteError(route) ==
  IF route = "photo" THEN "COMPLETE_TASK_WITH_PHOTO_ERROR" ELSE "COMPLETE_TASK_ERROR"

\* A statement of the transaction throws (the INSERT, the UPDATE or the
\* COMMIT): the catch block rolls the transaction back and answers 500.
completeFail(k) ==
  /\ complReq[k].pc \in {"insert", "update", "commit"}
  /\ assignLock' = {l \in assignLock : l[2] # k}
  /\ complReq' = [complReq EXCEPT ![k] =
       [@ EXCEPT !.pc = "done", !.result = CompleteError(complReq[k].route)]]
  /\ lastOp' = "complete"
  /\ UNCHANGED <<schedVars, completions, rewardVars, ledger>>

\* The transaction commits and the query that fetches the completion for
\* the response throws: the catch block answers 500, its rollback comes
\* after the commit.
completeFetchFail(k) ==
  /\ complReq[k].pc = "commit"
  /\ completions' = Append(completions, InsertedCompletion(k))
  /\ assignments' = IF complReq[k].assignment_id # NULL
                    THEN [assignments EXCEPT ![complReq[k].assignment_id].status = "completed"]
                    ELSE assignments
  /\ assignLock' = {l \in assignLock : l[2] # k}
  /\ complReq' = [complReq EXCEPT ![k] =
       [@ EXCEPT !.pc = "done", !.result = CompleteError(complReq[k].route)]]
  /\ lastOp' = "complete"
  /\ UNCHANGED <<today, taskActive, taskMinutes, houseVars, assigneeNullable, rewardVars, ledger>>

\* ======================================================================
\* routes/tasks.js: PUT /tasks/:id and DELETE /tasks/:id
\* ======================================================================
\* household_members.can_create_tasks
CanCreateTasks(h, u) == u = 3

\* the task exists and is active, the actor is an active member of its
\* household and owner, admin or allowed to create tasks
MayEditTask(actor, t) ==
  /\ taskActive[t]
  /\ IsActiveMember(Task(t).household_id, actor)
  /\ \/ Role(Task(t).household_id, actor) \in {"owner", "admin"}
     \/ CanCreateTasks(Task(t).household_id, actor)

\* the difficulty_minutes a PUT /tasks/:id may carry
NewMinutes == {25}

\* PUT /tasks/:id with a body that repeats the task's other columns and
\* carries a new difficulty_minutes
updateTask(actor, t, minutes) ==
  /\ MayEditTask(actor, t)
  /\ taskMinutes' = [taskMinutes EXCEPT ![t] = minutes]
  /\ lastOp' = "updateTask"
  /\ UNCHANGED <<today, taskActive, houseVars, assigneeNullable, assignments>>
  /\ UNCHANGED reqVars

\* DELETE /tasks/:id: the task and its active assignments are deactivated
deleteTask(actor, t) ==
  /\ MayEditTask(actor, t)
  /\ taskActive' = [taskActive EXCEPT ![t] = FALSE]
  /\ assignments' = [i \in AssignmentIds |->
       IF assignments[i].task_id = t /\ assignments[i].is_active
       THEN [assignments[i] EXCEPT !.is_active = FALSE]
       ELSE assignments[i]]
  /\ lastOp' = "deleteTask"
  /\ UNCHANGED <<today, taskMinutes, houseVars, assigneeNullable>>
  /\ UNCHANGED reqVars

\* Assignment 1 is task 1 for user 2, assignment 2 is task 2, which
\* requires a photo, for user 3; nothing has been completed.
ComplInit ==
  /\ today = 0
  /\ taskActive = [t \in TaskIds |-> t \in StandingTasks]
  /\ taskMinutes = [t \in TaskIds |-> Task(t).difficulty_minutes]
  /\ HouseInit
  /\ assigneeNullable = TRUE
  /\ assignments = [i \in {1, 2} |->
       [task_id |-> i, assigned_to |-> i + 1, assigned_by |-> 1,
        due_date |-> 0, status |-> "pending", is_active |-> TRUE]]
  /\ completions = << >>
  /\ lastOp = "init"
  /\ rewardQty = [r \in RewardIds |-> InitialQuantity]
  /\ NoRequests

ComplNext ==
  \/ \E k \in ComplReqs, route \in Routes, u \in {2, 3}, i \in AssignmentIds \cup {NULL},
        t \in {NULL, 2}, photo \in BOOLEAN :
       /\ i # NULL => t = NULL
       /\ completeRead(k, route, u, i, t, photo)
  \/ \E k \in ComplReqs : completeInsert(k)
  \/ \E k \in ComplReqs : completeUpdate(k)
  \/ \E k \in ComplReqs : completeCommit(k)
  \/ \E i \in AssignmentIds :
       updateAssignmentStatus(assignments[i].assigned_to, i, "in_progress")
  \/ \E minutes \in NewMinutes : updateTask(1, 1, minutes)
  \/ deleteTask(1, 2)

SpecCompl == ComplInit /\ [][ComplNext]_vars

\* the completion rows that reference assignment i
CompletionsOf(i) == {c \in CompletionIds : completions[c].assignment_id = i}

\* both completion requests were made by the assignee on assignment i and
\* both have ended
BothCompleted(i) ==
  \A k \in ComplReqs :
    /\ complReq[k].pc = "done"
    /\ complReq[k].assignment_id = i
    /\ complReq[k].user = assignments[i].assigned_to
    /\ complReq[k].result \in {"COMPLETED", "ASSIGNMENT_ALREADY_COMPLETED"}

\* C2 (as claimed): completion is credited exactly once.  When two
\* requests of the assignee to complete the same assignment, which was not
\* completed before, have both ended, exactly one completion row references
\* the assignment and its status is completed.
C2_CompletionExactlyOnce ==
  \A i \in AssignmentIds :
    BothCompleted(i) =>
      /\ Cardinality(CompletionsOf(i)) = 1
      /\ assignments[i].status = "completed"

\* ======================================================================
\* claims of a user who has spent points before
\* ======================================================================
\* User 2 has completed one assignment of task 3 (20 points) and has one
\* fulfilled claim of reward 2 (10 points), fulfilled by the owner.
SpendInit ==
  /\ today = 0
  /\ taskActive = [t \in TaskIds |-> t \in StandingTasks]
  /\ taskMinutes = [t \in TaskIds |-> Task(t).difficulty_minutes]
  /\ HouseInit
  /\ assigneeNullable = TRUE
  /\ assignments = <<[task_id |-> 3, assigned_to |-> 2, assigned_by |-> 1,
                      due_date |-> 0, status |-> "completed", is_active |-> TRUE]>>
  /\ completions = <<[task_id |-> 3, assignment_id |-> 1, completed_by |-> 2,
                      points_earned |-> Task(3).difficulty_minutes]>>
  /\ lastOp = "init"
  /\ rewardQty = [r \in RewardIds |-> InitialQuantity]
  /\ claims = {[claim_id |-> 1, reward_id |-> 2, claimed_by |-> 2,
                points_spent |-> Reward(2).cost_points, status |-> "fulfilled",
                fulfilled_by |-> 1]}
  /\ nextClaimId = 2
  /\ rewardLock = [r \in RewardIds |-> NULL]
  /\ claimReq = [q \in ClaimReqs |-> ClaimIdle]
  /\ opReq = [p \in OpReqs |-> OpIdle]
  /\ assignLock = {}
  /\ complReq = [q \in ComplReqs |-> ComplIdle]
  /\ ledger = NoLedger

SpendNext ==
  \/ \E q \in ClaimReqs, u \in {2, 3}, r \in HomeRewards : claimReadReward(q, u, r)
  \/ \E q \in ClaimReqs : claimReadPoints(q)
  \/ \E q \in ClaimReqs : claimInsert(q)
  \/ \E q \in ClaimReqs : claimDecrement(q)
  \/ \E q \in ClaimReqs : claimCommit(q)
  \/ \E p \in OpReqs, id \in ClaimIds : fulfilRead(p, 1, id)
  \/ \E p \in OpReqs : fulfilWrite(p)

SpecSpend == SpendInit /\ [][SpendNext]_vars

\* the points of user u by the ledger's definition: earned minus spent on
\* fulfilled claims
Balance(u) == EarnedBy(u) - SpentBy(u)

\* the claim requests that run their points check in this step
PointsChecks == {q \in ClaimReqs : claimReq[q].pc = "points" /\ claimReq'[q].pc # "points"}

\* the claim requests that run their reward query in this step
RewardChecks == {q \in ClaimReqs : claimReq[q].pc = "idle" /\ claimReq'[q].pc # "idle"}

\* C11 (as claimed): a claim request of a user whose points are below the
\* reward's cost ends with INSUFFICIENT_POINTS, and a claim request of a
\* member on a reward whose quantity is <= 0 ends with REWARD_NOT_AVAILABLE;
\* in both cases no claim row is inserted and the quantity stays as it is.
C11_RejectedClaimChangesNothing ==
  [][/\ \A q \in PointsChecks :
          Balance(claimReq[q].user) < Reward(claimReq[q].reward_id).cost_points
          => /\ claimReq'[q].pc = "done"
             /\ claimReq'[q].result = "INSUFFICIENT_POINTS"
             /\ claims' = claims
             /\ rewardQty' = rewardQty
     /\ \A q \in RewardChecks :
          (/\ IsActiveMember(Reward(claimReq'[q].reward_id).household_id, claimReq'[q].user)
           /\ rewardQty[claimReq'[q].reward_id] <= 0)
          => /\ claimReq'[q].pc = "done"
             /\ claimReq'[q].result = "REWARD_NOT_AVAILABLE"
             /\ claims' = claims
             /\ rewardQty' = rewardQty]_vars

\* the claim requests that end with a successful claim of reward r in this
\* step
SuccessfulClaims(r) ==
  {q \in ClaimReqs : /\ claimReq[q].pc # "done"
                     /\ claimReq'[q].pc = "done"
                     /\ claimReq'[q].result = "CLAIMED"
                     /\ claimReq'[q].reward_id = r}

\* the claim rows of reward r that the step inserts
InsertedClaimsOf(r) == {c \in claims' \ claims : c.reward_id = r}

\* C12 (as claimed): reward quantity invariant.  No step leaves a reward
\* with a negative quantity, and a step that lowers a reward's quantity is
\* a successful claim of that reward, lowers it by exactly 1 and inserts
\* exactly one claim row for it.
C12_QuantityInvariant ==
  [][\A r \in RewardIds :
       /\ rewardQty[r] >= 0 => rewardQty'[r] >= 0
       /\ rewardQty'[r] < rewardQty[r] =>
            /\ Cardinality(SuccessfulClaims(r)) = 1
            /\ rewardQty'[r] = rewardQty[r] - 1
            /\ Cardinality(InsertedClaimsOf(r)) = 1]_vars

\* the claim requests that commit in this step
Commits == {q \in ClaimReqs : claimReq[q].pc = "commit" /\ claimReq'[q].pc = "done"}

\* C13 (as claimed): a successful claim debits the claimant.  Right after
\* the commit of a claim the claimant's available points, as the next claim
\* request would compute them, are the points the request read minus the
\* reward's cost, the remaining_points of the response.
C13_ClaimDebitsBalance ==
  [][\A q \in Commits :
       AvailablePoints(claimReq[q].user, Reward(claimReq[q].reward_id).household_id)'
         = claimReq[q].available_points - Reward(claimReq[q].reward_id).cost_points]_vars

\* the completion requests that run their lookups and checks in this step
ReadSteps == {k \in ComplReqs : complReq[k].pc = "idle" /\ complReq'[k].pc # "idle"}

\* the request carries what its route needs before the lookups
FileAttached(req) == req.route = "photo" => req.photo

\* C14: completing a completed assignment is rejected.  A request that
\* names an assignment whose status is completed ends at once, without a
\* completion row and without a change of the assignment; when it is the
\* assignee's request on the active assignment (with its file on
\* /with-photo) the answer is ASSIGNMENT_ALREADY_COMPLETED.
C14_CompletedRejected ==
  [][\A k \in ReadSteps :
       LET req == complReq'[k] IN
       (req.assignment_id \in AssignmentIds /\ assignments[req.assignment_id].status = "completed")
       => /\ req.pc = "done"
          /\ req.result # "COMPLETED"
          /\ completions' = completions
          /\ assignments' = assignments
          /\ (AssignmentFound(req.assignment_id, req.user) /\ FileAttached(req))
               => req.result = "ASSIGNMENT_ALREADY_COMPLETED"]_vars

\* a second request of the assignee was answered ASSIGNMENT_ALREADY_COMPLETED
\* and the assignment has its one completion row
C14_Witness ==
  \E k \in ComplReqs :
    /\ complReq[k].pc = "done"
    /\ complReq[k].result = "ASSIGNMENT_ALREADY_COMPLETED"
    /\ Cardinality(CompletionsOf(complReq[k].assignment_id)) = 1

\* the task a request is about: the task of its assignment, or the task it
\* names when it names no assignment
TargetTask(req) ==
  IF req.assignment_id # NULL
  THEN IF req.assignment_id \in AssignmentIds
       THEN assignments[req.assignment_id].task_id ELSE NULL
  ELSE req.req_task_id

\* the lookup of the request finds its assignment, not yet completed, or
\* its task
LookupPasses(req) ==
  IF req.assignment_id # NULL
  THEN AssignmentFound(req.assignment_id, req.user)
       /\ assignments[req.assignment_id].status # "completed"
  ELSE TaskFound(req.req_task_id, req.user)

\* C15: photo proof is enforced.  A request without a proof image for a
\* task with requires_photo ends at once, without a completion row and
\* without a change of the assignments; when its lookup passes the answer
\* is PHOTO_REQUIRED.
C15_PhotoRequired ==
  [][\A k \in ReadSteps :
       LET req == complReq'[k] IN
       (TargetTask(req) # NULL /\ Task(TargetTask(req)).requires_photo /\ ~ req.photo)
       => /\ req.pc = "done"
          /\ req.result # "COMPLETED"
          /\ completions' = completions
          /\ assignments' = assignments
          /\ LookupPasses(req) => req.result = "PHOTO_REQUIRED"]_vars

\* a request on the plain route for the assignment of task 2, which
\* requires a photo, came without one and was answered PHOTO_REQUIRED
C15_Witness ==
  \E k \in ComplReqs :
    /\ complReq[k].pc = "done"
    /\ complReq[k].route = "plain"
    /\ complReq[k].assignment_id = 2
    /\ ~ complReq[k].photo
    /\ complReq[k].result = "PHOTO_REQUIRED"
    /\ assignments[2].status # "completed"

\* the completion requests whose transaction commits in this step
CommitSteps == {k \in ComplReqs : complReq[k].pc = "commit" /\ complReq'[k].pc = "done"}

\* C16: points_earned is fixed at completion.  The points a request takes
\* are the task's difficulty_minutes when it looks the task up, the row it
\* commits carries these points, and no step (a later update or deletion of
\* the task included) changes or removes an existing completion row.
C16_PointsFixed ==
  [][/\ \A c \in CompletionIds :
          c \in DOMAIN completions' /\ completions'[c] = completions[c]
     /\ \A k \in ReadSteps :
          complReq'[k].pc = "insert"
          => complReq'[k].points = taskMinutes[complReq'[k].task_id]
     /\ \A c \in (DOMAIN completions') \ CompletionIds :
          \E k \in CommitSteps :
            /\ completions'[c].points_earned = complReq[k].points
            /\ completions'[c].task_id = complReq[k].task_id]_vars

\* task 1 was completed for its 10 points and then updated to 25 minutes
C16_Witness ==
  \E c \in CompletionIds :
    /\ completions[c].task_id = 1
    /\ completions[c].points_earned = Task(1).difficulty_minutes
    /\ taskMinutes[1] # Task(1).difficulty_minutes

\* ======================================================================
\* failures inside the two transactions
\* ======================================================================
\* User 2 has completed assignment 1 (task 3, 20 points) and has
\* assignment 2 (task 1) pending.
AtomicInit ==
  /\ today = 0
  /\ taskActive = [t \in TaskIds |-> t \in StandingTasks]
  /\ taskMinutes = [t \in TaskIds |-> Task(t).difficulty_minutes]
  /\ HouseInit
  /\ assigneeNullable = TRUE
  /\ assignments = <<[task_id |-> 3, assigned_to |-> 2, assigned_by |-> 1,
                      due_date |-> 0, status |-> "completed", is_active |-> TRUE],
                     [task_id |-> 1, assigned_to |-> 2, assigned_by |-> 1,
                      due_date |-> 0, status |-> "pending", is_active |-> TRUE]>>
  /\ completions = <<[task_id |-> 3, assignment_id |-> 1, completed_by |-> 2,
                      points_earned |-> Task(3).difficulty_minutes]>>
  /\ lastOp = "init"
  /\ rewardQty = [r \in RewardIds |-> InitialQuantity]
  /\ NoRequests

AtomicNext ==
  \/ \E q \in ClaimReqs, r \in HomeRewards : claimReadReward(q, 2, r)
  \/ \E q \in ClaimReqs : claimReadPoints(q)
  \/ \E q \in ClaimReqs : claimInsert(q)
  \/ \E q \in ClaimReqs : claimDecrement(q)
  \/ \E q \in ClaimReqs : claimCommit(q)
  \/ \E q \in ClaimReqs : claimFail(q)
  \/ \E q \in ClaimReqs : claimFetchFail(q)
  \/ \E k \in ComplReqs, route \in Routes : completeRead(k, route, 2, 2, NULL, TRUE)
  \/ \E k \in ComplReqs : completeInsert(k)
  \/ \E k \in ComplReqs : completeUpdate(k)
  \/ \E k \in ComplReqs : completeCommit(k)
  \/ \E k \in ComplReqs : completeFail(k)
  \/ \E k \in ComplReqs : completeFetchFail(k)

SpecAtomic == AtomicInit /\ [][AtomicNext]_vars

\* the claim requests that end with the 500 answer in this step, after
\* their INSERT
FailedClaims ==
  {q \in ClaimReqs : /\ claimReq[q].pc \in {"decrement", "commit"}
                     /\ claimReq'[q].pc = "done"
                     /\ claimReq'[q].result = "CLAIM_REWARD_ERROR"}

\* the completion requests that end with the 500 answer in this step, after
\* their INSERT
FailedCompletions ==
  {k \in ComplReqs : /\ complReq[k].pc \in {"update", "commit"}
                     /\ complReq'[k].pc = "done"
                     /\ complReq'[k].result = CompleteError(complReq[k].route)}

\* the claim rows of reward r
ClaimsOf(r) == {c \in claims : c.reward_id = r}

\* C17 (as claimed): no partial writes.  When a claim or a completion
\* request fails after its first write, none of its writes is visible
\* afterwards; and in every state each reward has lost one unit per claim
\* row, and an assignment has a completion row exactly when it is
\* completed.
C17_NoPartialWrites ==
  /\ [][/\ FailedClaims # {} => (claims' = claims /\ rewardQty' = rewardQty)
        /\ FailedCompletions # {} => (completions' = completions /\ assignments' = assignments)]_vars
  /\ [](\A r \in RewardIds : rewardQty[r] + Cardinality(ClaimsOf(r)) = InitialQuantity)
  /\ [](\A i \in AssignmentIds :
          (CompletionsOf(i) # {}) <=> (assignments[i].status = "completed"))

\* ======================================================================
\* the daily generator over two non-cyclic tasks
\* ======================================================================
\* Tasks 2 and 5, both daily and non-cyclic, are the active tasks; no
\* assignment exists yet.
RepeatInit ==
  /\ today = 0
  /\ taskActive = [t \in TaskIds |-> t \in {2, 5}]
  /\ taskMinutes = [t \in TaskIds |-> Task(t).difficulty_minutes]
  /\ HouseInit
  /\ assigneeNullable \in BOOLEAN
  /\ assignments = << >>
  /\ lastOp = "init"
  /\ completions = << >>
  /\ rewardQty = [r \in RewardIds |-> InitialQuantity]
  /\ NoRequests

RepeatNext ==
  \/ generateDailyAssignments
  \/ NextDay(MaxSweepDay)
  \/ \E t \in {2, 5}, u \in {2, 3} :
       /\ Len(assignments) < MaxManual
       /\ createAssignment(HouseholdCreator(Task(t).household_id), t, u, today)

SpecRepeat == RepeatInit /\ [][RepeatNext]_vars

\* task t has an assignment
HasPrior(t) == \E i \in AssignmentIds : assignments[i].task_id = t

\* task t has an assignment due today
HasDueToday(t) ==
  \E i \in AssignmentIds : assignments[i].task_id = t /\ assignments[i].due_date = today

\* C18 (as claimed): repeat-last-assignee.  A run of the daily generator
\* creates, for every active non-cyclic daily task with a prior assignment
\* and none due today, exactly one assignment: for the assignee of the
\* task's most recently created assignment, due today, assigned by the
\* task's creator.
C18_RepeatLastAssignee ==
  [][DailyStep =>
       \A t \in TaskIds :
         (/\ Task(t).frequency = "daily"
          /\ ~ Task(t).is_cyclic
          /\ taskActive[t]
          /\ HasPrior(t)
          /\ ~ HasDueToday(t))
         => /\ Cardinality(NewRowsOf(t)) = 1
            /\ \A i \in NewRowsOf(t) :
                 /\ assignments'[i].assigned_to = LastAssignee(t)
                 /\ assignments'[i].due_date = today
                 /\ assignments'[i].assigned_by = Task(t).created_by]_vars

\* C19 (as claimed): the generator skips tasks with no resolvable assignee.
\* A run of the daily or the weekly generator creates no row for a task
\* whose assignee query yields nothing, and never a row with an empty
\* assignee.
C19_SkipsUnresolvable ==
  [][(DailyStep \/ WeeklyStep) =>
       /\ \A t \in TaskIds : NewAssignee(t) = NULL => NewRowsOf(t) = {}
       /\ \A i \in NewRowIds : assignments'[i].assigned_to # NULL]_vars

\* C20 (as claimed): the generator honours cycle_users.  A row that a run
\* of the generator creates for a cyclic task with a non-empty cycle_users
\* list is assigned to a user of that list.
C20_CycleUsersHonoured ==
  [][(DailyStep \/ WeeklyStep) =>
       \A i \in NewRowIds :
         LET t == assignments'[i].task_id IN
         (Task(t).is_cyclic /\ Task(t).cycle_users # {})
         => assignments'[i].assigned_to \in Task(t).cycle_users]_vars

\* ======================================================================
\* the scheduled jobs with a failing store
\* ======================================================================
Jobs == {"daily", "weekly", "sweep"}

\* Mutant of JobErrorLogged: the job has no catch block and the rejection
\* reaches node-cron.
JobErrorRethrown(job) ==
  CASE job = "daily" -> "daily threw"
    [] job = "weekly" -> "weekly threw"
    [] job = "sweep" -> "sweep threw"

\* catch (error) { logger.error(...) }: the job returns normally.
JobErrorLogged(job) ==
  CASE job = "daily" -> "daily failed"
    [] job = "weekly" -> "weekly failed"
    [] job = "sweep" -> "sweep failed"

FailedOps == {"daily failed", "weekly failed", "sweep failed"}
ThrownOps == {"daily threw", "weekly threw", "sweep threw"}

\* A tick whose only statement is refused by the store (connection lost,
\* lock wait timeout): the statement has no effect and the catch block ends
\* the job.
jobFails(job) ==
  /\ lastOp' = JobErrorLogged(job)
  /\ UNCHANGED schedVars
  /\ UNCHANGED reqVars

JobsNext ==
  \/ generateDailyAssignments
  \/ generateWeeklyAssignments
  \/ markOverdueAssignments
  \/ \E job \in Jobs : jobFails(job)
  \/ NextDay(MaxSweepDay)
  \/ \E t \in {2, 4}, u \in {2, 3} :
       /\ Len(assignments) < MaxManual
       /\ createAssignment(HouseholdCreator(Task(t).household_id), t, u, today)

SpecJobs == SchedInit /\ [][JobsNext]_vars

\* the rows the sweeper would change
Sweepable == {i \in AssignmentIds : SweptRow(assignments[i]) # assignments[i]}

WeeklyInit ==
  /\ today = 0
  /\ taskActive = [t \in TaskIds |-> t = 3]
  /\ taskMinutes = [t \in TaskIds |-> Task(t).difficulty_minutes]
  /\ HouseInit
  /\ assigneeNullable \in BOOLEAN
  /\ assignments = << >>
  /\ lastOp = "init"
  /\ completions = << >>
  /\ rewardQty = [r \in RewardIds |-> InitialQuantity]
  /\ NoRequests

\* cron '0 6 * * 1': the job is the first thing that happens on a Monday.
\* Nothing but the job creates assignments.
WeeklyNext ==
  \/ /\ WEEKDAY(today) = 0
     /\ lastOp \in {"init", "tick"}
     /\ generateWeeklyAssignments
  \/ NextDay(MaxWeeklyDay)
  \/ \E i \in AssignmentIds, st \in UpdatableStatuses \ {"assigned"} :
       updateAssignmentStatus(assignments[i].assigned_to, i, st)
  \/ \E u \in Users : leaveHousehold(1, u)

SpecWeekly == WeeklyInit /\ [][WeeklyNext]_vars

\* C22 (as claimed): one assignment per week, every week.  Each Monday run
\* of the weekly generator creates, for every active weekly task with a
\* resolvable assignee, exactly one assignment, due on the upcoming Monday.
C22_EveryWeek ==
  [][WeeklyStep =>
       \A t \in TaskIds :
         (Task(t).frequency = "weekly" /\ taskActive[t] /\ NewAssignee(t) # NULL)
         => /\ Cardinality(NewRowsOf(t)) = 1
            /\ \A i \in NewRowsOf(t) : assignments'[i].due_date = WeeklyDueDate]_vars

\* C26 (as claimed): a claim leaves pending by a fulfil or reject request
\* only if the request's actor is an active member of the reward's
\* household with role owner or admin.
C26_OnlyAdminsSettle ==
  [][\A c \in claims : \A d \in claims' :
        (c.status = "pending" /\ d.claim_id = c.claim_id /\ d.status # "pending")
        => /\ IsActiveMember(Reward(c.reward_id).household_id, d.fulfilled_by)
           /\ Role(Reward(c.reward_id).household_id, d.fulfilled_by) \in {"owner", "admin"}]_vars

\* ======================================================================
\* the claim's points query over two households
\* ======================================================================
\* Assignment 1 (task 1, household 1) and assignment 2 (task 6, household
\* 2) are user 2's, assignment 3 (task 1) is user 3's.
ScopeAssignments ==
  <<[task_id |-> 1, assigned_to |-> 2], [task_id |-> 6, assigned_to |-> 2],
    [task_id |-> 1, assigned_to |-> 3]>>

\* The completions a table is drawn from, as <<task, assignment, user>>:
\* one per assignment, and user 2's completion of task 2 by task id
\* (POST /completions/with-photo with task_id).
ScopeCompletions == {<<1, 1, 2>>, <<6, 2, 2>>, <<1, 3, 3>>, <<2, NULL, 2>>}

\* the fulfilled or pending claims a table is drawn from, as <<reward, user, status>>
ScopeClaims == {1, 3} \X LedgerUsers \X {"pending", "fulfilled"}

\* the points of the user's completions of tasks of the household
EarnedIn(u, h) ==
  SumEarned({<<i, NULL>> : i \in {j \in CompletionIds :
     completions[j].completed_by = u /\ Task(completions[j].task_id).household_id = h}})

\* the points of the user's fulfilled claims on rewards of the household
SpentIn(u, h) ==
  SumSpent({<<NULL, k>> : k \in {id \in FulfilledClaimIds(u) :
     Reward(ClaimRow(id).reward_id).household_id = h}})

\* Tables without the row multiplication of C5: a user has at most one
\* fulfilled claim, and a claim was made with the points earned in the
\* reward's household.
ScopeInit ==
  /\ today = 0
  /\ taskActive = [t \in TaskIds |-> t \in StandingTasks \cup {6}]
  /\ taskMinutes = [t \in TaskIds |-> Task(t).difficulty_minutes]
  /\ HouseInit
  /\ assigneeNullable = TRUE
  /\ lastOp = "init"
  /\ rewardQty = [r \in RewardIds |-> InitialQuantity]
  /\ \E cs \in SUBSET ScopeCompletions :
       \E order \in [1..Cardinality(cs) -> cs] :
         /\ \A i, j \in DOMAIN order : i # j => order[i] # order[j]
         /\ \A i, j \in DOMAIN order : i < j => order[i][1] <= order[j][1]
         /\ completions = [i \in DOMAIN order |->
              [task_id |-> order[i][1], assignment_id |-> order[i][2],
               completed_by |-> order[i][3],
               points_earned |-> Task(order[i][1]).difficulty_minutes]]
         /\ assignments = [i \in DOMAIN ScopeAssignments |->
              [task_id |-> ScopeAssignments[i].task_id,
               assigned_to |-> ScopeAssignments[i].assigned_to, assigned_by |-> 1,
               due_date |-> 0,
               status |-> IF \E c \in cs : c[2] = i THEN "completed" ELSE "pending",
               is_active |-> TRUE]]
  /\ \E ks \in SeqsUpTo(ScopeClaims, MaxScopeClaims) :
       /\ claims = {[claim_id |-> i, reward_id |-> ks[i][1], claimed_by |-> ks[i][2],
                     points_spent |-> Reward(ks[i][1]).cost_points, status |-> ks[i][3],
                     fulfilled_by |-> IF ks[i][3] = "pending" THEN NULL
                                      ELSE HouseholdCreator(Reward(ks[i][1]).household_id)]
                    : i \in DOMAIN ks}
       /\ nextClaimId = Len(ks) + 1
  /\ \A u \in Users : Cardinality(FulfilledClaimIds(u)) <= 1
  /\ \A c \in claims :
       EarnedIn(c.claimed_by, Reward(c.reward_id).household_id) >= c.points_spent
  /\ rewardLock = [r \in RewardIds |-> NULL]
  /\ claimReq = [q \in ClaimReqs |-> ClaimIdle]
  /\ opReq = [p \in OpReqs |-> OpIdle]
  /\ assignLock = {}
  /\ complReq = [q \in ComplReqs |-> ComplIdle]
  /\ ledger = NoLedger

ScopeNext ==
  \E u \in LedgerUsers, h \in Households : readAvailablePoints(u, h)

SpecScope == ScopeInit /\ [][ScopeNext]_vars

\* C29 (as claimed): the available points of a user in a household are the
\* points of all the user's completions of the household's tasks, made
\* through an assignment or by task id, minus the points of the user's
\* fulfilled claims on the household's rewards; what the user earned or
\* spent in another household does not count.
C29_LedgerScopedToHousehold ==
  ledger.query = "available_points" =>
    ledger.current_points
      = EarnedIn(ledger.user, ledger.household) - SpentIn(ledger.user, ledger.household)

\* C30: only the assignee completes an assignment, and only while it is
\* active.  A request that names an assignment of another user, or an
\* assignment with is_active = 0, ends at once, without a completion row
\* and without a change of the assignments; the answer is
\* ASSIGNMENT_NOT_FOUND (on /with-photo when the request carries its file).
C30_OnlyAssigneeWhileActive ==
  [][\A k \in ReadSteps :
       LET req == complReq'[k] IN
       (/\ req.assignment_id \in AssignmentIds
        /\ \/ assignments[req.assignment_id].assigned_to # req.user
           \/ ~ assignments[req.assignment_id].is_active)
       => /\ req.pc = "done"
          /\ req.result # "COMPLETED"
          /\ completions' = completions
          /\ assignments' = assignments
          /\ FileAttached(req) => req.result = "ASSIGNMENT_NOT_FOUND"]_vars

\* one request on another user's active pending assignment and one request
\* of the assignee on the cancelled assignment were both answered
\* ASSIGNMENT_NOT_FOUND
C30_Witness ==
  \E k1, k2 \in ComplReqs :
    /\ complReq[k1].pc = "done" /\ complReq[k1].result = "ASSIGNMENT_NOT_FOUND"
    /\ complReq[k1].assignment_id \in AssignmentIds
    /\ assignments[complReq[k1].assignment_id].assigned_to # complReq[k1].user
    /\ assignments[complReq[k1].assignment_id].is_active
    /\ assignments[complReq[k1].assignment_id].status = "pending"
    /\ complReq[k2].pc = "done" /\ complReq[k2].result = "ASSIGNMENT_NOT_FOUND"
    /\ complReq[k2].assignment_id \in AssignmentIds
    /\ assignments[complReq[k2].assignment_id].assigned_to = complReq[k2].user
    /\ ~ assignments[complReq[k2].assignment_id].is_active
    /\ completions = << >>

\* ======================================================================
\* routes/assignments.js: the ways an assignment is created
\* ======================================================================
\* an active pending assignment of the pair exists
PendingExists(t, u) ==
  \E i \in AssignmentIds :
    /\ assignments[i].task_id = t
    /\ assignments[i].assigned_to = u
    /\ assignments[i].is_active
    /\ assignments[i].status = "pending"

\* the task query and the assignee query of POST /assignments and of an
\* item of POST /assignments/bulk
CreateAllowed(actor, t, u) ==
  /\ taskActive[t]
  /\ IsActiveMember(Task(t).household_id, actor)
  /\ Role(Task(t).household_id, actor) \in {"owner", "admin"}
  /\ IsActiveMember(Task(t).household_id, u)

NewAssignment(actor, t, u, due) ==
  [task_id |-> t, assigned_to |-> u, assigned_by |-> actor,
   due_date |-> due, status |-> "pending", is_active |-> TRUE]

\* POST /assignments up to its INSERT: the three queries
createCheck(k, actor, t, u, due) ==
  /\ routeReq[k].pc = "idle"
  /\ CreateAllowed(actor, t, u)
  /\ routeReq' = [routeReq EXCEPT ![k] =
       [pc |-> IF PendingExists(t, u) THEN "done" ELSE "insert",
        route |-> "create", user |-> actor, household |-> Task(t).household_id,
        task |-> t, assignee |-> u, due |-> due,
        result |-> IF PendingExists(t, u) THEN "ASSIGNMENT_ALREADY_EXISTS" ELSE "none"]]
  /\ lastOp' = "create"
  /\ UNCHANGED <<today, taskActive, taskMinutes, assigneeNullable, assignments>>
  /\ UNCHANGED <<householdActive, members, rewardActive, userActive>>
  /\ UNCHANGED reqVars

\* INSERT INTO task_assignments ... VALUES (?, ?, ?, ?, 'pending', NOW())
createInsert(k) ==
  /\ routeReq[k].pc = "insert"
  /\ routeReq[k].route = "create"
  /\ assignments' = Append(assignments,
       NewAssignment(routeReq[k].user, routeReq[k].task, routeReq[k].assignee,
                     routeReq[k].due))
  /\ routeReq' = [routeReq EXCEPT ![k] = [@ EXCEPT !.pc = "done", !.result = "CREATED"]]
  /\ lastOp' = "create"
  /\ UNCHANGED <<today, taskActive, taskMinutes, assigneeNullable>>
  /\ UNCHANGED <<householdActive, members, rewardActive, userActive>>
  /\ UNCHANGED reqVars

\* The rows POST /assignments/bulk inserts for its items, as <<task, user>>.
\* The queries of every item go through the pool and so read the committed
\* table, which has none of the rows the transaction inserted for earlier
\* items.
RECURSIVE BulkRows(_, _, _)
BulkRows(actor, items, due) ==
  IF items = << >> THEN << >>
  ELSE LET t == Head(items)[1]
           u == Head(items)[2] IN
       (IF CreateAllowed(actor, t, u) /\ ~ PendingExists(t, u)
        THEN <<NewAssignment(actor, t, u, due)>> ELSE << >>)
         \o BulkRows(actor, Tail(items), due)

\* POST /assignments/bulk: the loop over the items and the commit
bulkCreate(actor, items, due) ==
  /\ IsActiveMember(1, actor)
  /\ Role(1, actor) \in {"owner", "admin"}
  /\ assignments' = assignments \o BulkRows(actor, items, due)
  /\ lastOp' = "bulk"
  /\ UNCHANGED <<today, taskActive, taskMinutes, houseVars, assigneeNullable>>
  /\ UNCHANGED reqVars

BulkItems == {1} \X {2, 3}

\* Task 1, daily and cyclic, is the active task; no assignment exists.
AssignInit ==
  /\ today = 0
  /\ taskActive = [t \in TaskIds |-> t = 1]
  /\ taskMinutes = [t \in TaskIds |-> Task(t).difficulty_minutes]
  /\ HouseInit
  /\ assigneeNullable \in BOOLEAN
  /\ assignments = << >>
  /\ lastOp = "init"
  /\ completions = << >>
  /\ rewardQty = [r \in RewardIds |-> InitialQuantity]
  /\ NoRequests

AssignNext ==
  \/ \E k \in RouteReqs, t \in {1}, u \in {2, 3} :
       /\ Len(assignments) < MaxAssignRows
       /\ createCheck(k, 1, t, u, today)
  \/ \E k \in RouteReqs : createInsert(k)
  \/ \E items \in SeqsUpTo(BulkItems, MaxBulk) \ {<< >>} :
       /\ Len(assignments) + Len(items) <= MaxAssignRows
       /\ bulkCreate(1, items, today)
  \/ /\ Len(assignments) + Cardinality(DailySelected) <= MaxAssignRows
     /\ generateDailyAssignments
  \/ NextDay(MaxManual)

SpecAssign == AssignInit /\ [][AssignNext]_vars

\* C23 (as claimed): at most one active pending assignment per (task,
\* assignee) pair, however the assignments were created.
C23_OnePendingPerPair ==
  \A t \in TaskIds, u \in Users :
    Cardinality({i \in AssignmentIds :
      /\ assignments[i].task_id = t
      /\ assignments[i].assigned_to = u
      /\ assignments[i].is_active
      /\ assignments[i].status = "pending"}) <= 1

\* ======================================================================
\* routes/households.js: join, leave, roles, removal
\* ======================================================================
\* a row of the pair exists, active or not: WHERE household_id = ? AND user_id = ?
MembershipExists(h, u) ==
  \E i \in MembershipIds : members[i].household_id = h /\ members[i].user_id = u

JoinEnds(k, u, h, res) ==
  routeReq' = [routeReq EXCEPT ![k] =
    [RouteIdle EXCEPT !.pc = "done", !.route = "join", !.user = u, !.household = h,
                      !.result = res]]

\* POST /households/join up to its INSERT: the household of the invite code
\* is active and the user has no membership row in it
joinCheck(k, u, h) ==
  /\ routeReq[k].pc = "idle"
  /\ IF ~ householdActive[h] THEN JoinEnds(k, u, h, "INVALID_INVITE_CODE")
     ELSE IF MembershipExists(h, u) THEN JoinEnds(k, u, h, "ALREADY_MEMBER")
     ELSE routeReq' = [routeReq EXCEPT ![k] =
            [RouteIdle EXCEPT !.pc = "insert", !.route = "join", !.user = u,
                              !.household = h]]
  /\ lastOp' = "join"
  /\ UNCHANGED <<today, taskActive, taskMinutes, assigneeNullable, assignments>>
  /\ UNCHANGED <<householdActive, members, rewardActive, userActive>>
  /\ UNCHANGED reqVars

\* INSERT INTO household_members (..., 'member', ...) and the commit.  When
\* a row of the pair has appeared since the check, the INSERT still
\* succeeds unless the table has a unique key on the pair, which makes it
\* fail; the catch block then rolls back and answers JOIN_HOUSEHOLD_ERROR.
joinInsert(k) ==
  /\ routeReq[k].pc = "insert"
  /\ routeReq[k].route = "join"
  /\ \/ /\ members' = Append(members,
              [household_id |-> routeReq[k].household, user_id |-> routeReq[k].user,
               role |-> "member", is_active |-> TRUE])
        /\ routeReq' = [routeReq EXCEPT ![k] = [@ EXCEPT !.pc = "done", !.result = "JOINED"]]
     \/ /\ MembershipExists(routeReq[k].household, routeReq[k].user)
        /\ members' = members
        /\ routeReq' = [routeReq EXCEPT ![k] =
             [@ EXCEPT !.pc = "done", !.result = "JOIN_HOUSEHOLD_ERROR"]]
  /\ lastOp' = "join"
  /\ UNCHANGED <<today, taskActive, taskMinutes, assigneeNullable, assignments>>
  /\ UNCHANGED <<householdActive, rewardActive, userActive>>
  /\ UNCHANGED reqVars

\* requireHouseholdAccess and requirePermission('manage_members'): no
\* membership column is named manage_members, so the role decides
MayManageMembers(actor, h) ==
  /\ IsActiveMember(h, actor)
  /\ Role(h, actor) \in {"owner", "admin"}

\* the row the member query returns: the first active row of the pair
MemberRow(h, u) == CHOOSE i \in ActiveRows(h, u) : \A j \in ActiveRows(h, u) : i <= j

MemberRoles == {"owner", "admin", "member"}

\* PUT /households/:id/members/:userId/role
updateMemberRole(actor, h, u, role) ==
  /\ MayManageMembers(actor, h)
  /\ IsActiveMember(h, u)
  /\ u # actor
  /\ members' = [members EXCEPT ![MemberRow(h, u)].role = role]
  /\ lastOp' = "role"
  /\ UNCHANGED <<today, taskActive, taskMinutes, assigneeNullable, assignments>>
  /\ UNCHANGED <<householdActive, rewardActive, userActive, routeReq>>
  /\ UNCHANGED reqVars

\* DELETE /households/:id/members/:userId
removeMember(actor, h, u) ==
  /\ MayManageMembers(actor, h)
  /\ IsActiveMember(h, u)
  /\ u # actor
  /\ members' = [members EXCEPT ![MemberRow(h, u)].is_active = FALSE]
  /\ lastOp' = "remove"
  /\ UNCHANGED <<today, taskActive, taskMinutes, assigneeNullable, assignments>>
  /\ UNCHANGED <<householdActive, rewardActive, userActive, routeReq>>
  /\ UNCHANGED reqVars

\* No assignments; the standing members of both households.
MembersInit ==
  /\ today = 0
  /\ taskActive = [t \in TaskIds |-> t \in StandingTasks]
  /\ taskMinutes = [t \in TaskIds |-> Task(t).difficulty_minutes]
  /\ HouseInit
  /\ assigneeNullable = TRUE
  /\ assignments = << >>
  /\ lastOp = "init"
  /\ completions = << >>
  /\ rewardQty = [r \in RewardIds |-> InitialQuantity]
  /\ NoRequests

MembersNext ==
  \/ \E k \in RouteReqs, u \in {1, 3} : joinCheck(k, u, 2)
  \/ \E k \in RouteReqs : joinInsert(k)
  \/ \E u \in Users : leaveHousehold(1, u)
  \/ \E actor, u \in Users, role \in MemberRoles : updateMemberRole(actor, 1, u, role)
  \/ \E actor, u \in Users : removeMember(actor, 1, u)

SpecMembers == MembersInit /\ [][MembersNext]_vars

\* C24 (as claimed): at most one active membership row per (household,
\* user) pair.
C24_OneActiveMembership ==
  \A h \in Households, u \in Users : Cardinality(ActiveRows(h, u)) <= 1

\* C25 (as claimed): the creator of an active household has an active
\* membership with role owner or admin.
C25_CreatorElevated ==
  \A h \in Households :
    householdActive[h] =>
      /\ IsActiveMember(h, HouseholdCreator(h))
      /\ Role(h, HouseholdCreator(h)) \in {"owner", "admin"}

\* ======================================================================
\* The soft deletes that run more than one statement.  Every statement is
\* a query() on the pool, committed on its own; none of the three handlers
\* opens a transaction.  A request in state "run" is about to execute its
\* statement number stmt; a statement that throws takes the handler to its
\* catch block, which only answers with the handler's error code.

\* the statements of each handler, by the table they update
MutationStatements(route) ==
  CASE route = "deleteHousehold" -> <<"households", "household_members", "tasks", "rewards">>
    [] route = "deleteTask" -> <<"tasks", "task_assignments">>
    [] route = "deleteAccount" -> <<"users", "household_members">>

\* the code the catch block of each handler answers with
MutationError(route) ==
  CASE route = "deleteHousehold" -> "DELETE_HOUSEHOLD_ERROR"
    [] route = "deleteTask" -> "DELETE_TASK_ERROR"
    [] route = "deleteAccount" -> "DELETE_ACCOUNT_ERROR"

MutationErrors == {"DELETE_HOUSEHOLD_ERROR", "DELETE_TASK_ERROR", "DELETE_ACCOUNT_ERROR"}

\* the request record after statement number stmt has been executed
StatementDone(req) ==
  IF req.stmt = Len(MutationStatements(req.route))
  THEN [req EXCEPT !.pc = "done", !.result = "success"]
  ELSE [req EXCEPT !.stmt = req.stmt + 1]

\* DELETE /households/:id up to its first statement: authenticate,
\* requireHouseholdAccess and requirePermission('manage_household'); no
\* membership column is named manage_household, so the role decides
deleteHouseholdStart(k, actor, h) ==
  /\ routeReq[k].pc = "idle"
  /\ userActive[actor]
  /\ LET req == [RouteIdle EXCEPT !.route = "deleteHousehold", !.user = actor,
                                  !.household = h] IN
     routeReq' = [routeReq EXCEPT ![k] =
       IF ~ IsActiveMember(h, actor)
       THEN [req EXCEPT !.pc = "done", !.result = "HOUSEHOLD_ACCESS_DENIED"]
       ELSE IF Role(h, actor) \notin {"owner", "admin"}
       THEN [req EXCEPT !.pc = "done", !.result = "INSUFFICIENT_PERMISSIONS"]
       ELSE [req EXCEPT !.pc = "run", !.stmt = 1]]
  /\ lastOp' = "deleteHousehold"
  /\ UNCHANGED <<today, taskActive, taskMinutes, assigneeNullable, assignments>>
  /\ UNCHANGED <<householdActive, members, rewardActive, userActive>>
  /\ UNCHANGED reqVars

\* one UPDATE ... SET is_active = 0 WHERE household_id = ? of
\* DELETE /households/:id; the UPDATE of rewards waits for the row locks
\* that claim transactions hold
deleteHouseholdStep(k) ==
  /\ routeReq[k].pc = "run"
  /\ routeReq[k].route = "deleteHousehold"
  /\ MutationStatements("deleteHousehold")[routeReq[k].stmt] = "rewards"
       => \A r \in RewardIds :
            Reward(r).household_id = routeReq[k].household => rewardLock[r] = NULL
  /\ LET h == routeReq[k].household
         table == MutationStatements("deleteHousehold")[routeReq[k].stmt] IN
     /\ householdActive' = IF table = "households"
                           THEN [householdActive EXCEPT ![h] = FALSE]
                           ELSE householdActive
     /\ members' = IF table = "household_members"
                   THEN [i \in MembershipIds |->
                          IF members[i].household_id = h
                          THEN [members[i] EXCEPT !.is_active = FALSE] ELSE members[i]]
                   ELSE members
     /\ taskActive' = IF table = "tasks"
                      THEN [t \in TaskIds |-> taskActive[t] /\ Task(t).household_id # h]
                      ELSE taskActive
     /\ rewardActive' = IF table = "rewards"
                        THEN [r \in RewardIds |-> rewardActive[r] /\ Reward(r).household_id # h]
                        ELSE rewardActive
  /\ routeReq' = [routeReq EXCEPT ![k] = StatementDone(@)]
  /\ lastOp' = "deleteHousehold"
  /\ UNCHANGED <<today, taskMinutes, assigneeNullable, assignments, userActive>>
  /\ UNCHANGED reqVars

\* DELETE /tasks/:id up to its first statement: the task query and the
\* membership and permission checks
deleteTaskStart(k, actor, t) ==
  /\ routeReq[k].pc = "idle"
  /\ userActive[actor]
  /\ LET req == [RouteIdle EXCEPT !.route = "deleteTask", !.user = actor, !.task = t] IN
     routeReq' = [routeReq EXCEPT ![k] =
       IF ~ taskActive[t]
       THEN [req EXCEPT !.pc = "done", !.result = "TASK_NOT_FOUND"]
       ELSE IF ~ IsActiveMember(Task(t).household_id, actor)
       THEN [req EXCEPT !.pc = "done", !.result = "HOUSEHOLD_ACCESS_DENIED"]
       ELSE IF ~ MayEditTask(actor, t)
       THEN [req EXCEPT !.pc = "done", !.result = "INSUFFICIENT_PERMISSIONS"]
       ELSE [req EXCEPT !.pc = "run", !.stmt = 1]]
  /\ lastOp' = "deleteTask"
  /\ UNCHANGED <<today, taskActive, taskMinutes, assigneeNullable, assignments>>
  /\ UNCHANGED <<householdActive, members, rewardActive, userActive>>
  /\ UNCHANGED reqVars

\* one UPDATE of DELETE /tasks/:id: the task, then its active assignments
deleteTaskStep(k) ==
  /\ routeReq[k].pc = "run"
  /\ routeReq[k].route = "deleteTask"
  /\ LET t == routeReq[k].task
         table == MutationStatements("deleteTask")[routeReq[k].stmt] IN
     /\ taskActive' = IF table = "tasks" THEN [taskActive EXCEPT ![t] = FALSE]
                      ELSE taskActive
     /\ assignments' = IF table = "task_assignments"
                       THEN [i \in AssignmentIds |->
                              IF assignments[i].task_id = t /\ assignments[i].is_active
                              THEN [assignments[i] EXCEPT !.is_active = FALSE]
                              ELSE assignments[i]]
                       ELSE assignments
  /\ routeReq' = [routeReq EXCEPT ![k] = StatementDone(@)]
  /\ lastOp' = "deleteTask"
  /\ UNCHANGED <<today, taskMinutes, assigneeNullable>>
  /\ UNCHANGED <<householdActive, members, rewardActive, userActive>>
  /\ UNCHANGED reqVars

\* DELETE /users/account up to its first statement: authenticate and the
\* password check, with the right password
deleteAccountStart(k, u) ==
  /\ routeReq[k].pc = "idle"
  /\ userActive[u]
  /\ routeReq' = [routeReq EXCEPT ![k] =
       [RouteIdle EXCEPT !.pc = "run", !.stmt = 1, !.route = "deleteAccount", !.user = u]]
  /\ lastOp' = "deleteAccount"
  /\ UNCHANGED <<today, taskActive, taskMinutes, assigneeNullable, assignments>>
  /\ UNCHANGED <<householdActive, members, rewardActive, userActive>>
  /\ UNCHANGED reqVars

\* one UPDATE of DELETE /users/account: the user, then the user's
\* memberships
deleteAccountStep(k) ==
  /\ routeReq[k].pc = "run"
  /\ routeReq[k].route = "deleteAccount"
  /\ LET u == routeReq[k].user
         table == MutationStatements("deleteAccount")[routeReq[k].stmt] IN
     /\ userActive' = IF table = "users" THEN [userActive EXCEPT ![u] = FALSE]
                      ELSE userActive
     /\ members' = IF table = "household_members"
                   THEN [i \in MembershipIds |->
                          IF members[i].user_id = u
                          THEN [members[i] EXCEPT !.is_active = FALSE] ELSE members[i]]
                   ELSE members
  /\ routeReq' = [routeReq EXCEPT ![k] = StatementDone(@)]
  /\ lastOp' = "deleteAccount"
  /\ UNCHANGED <<today, taskActive, taskMinutes, assigneeNullable, assignments>>
  /\ UNCHANGED <<householdActive, rewardActive>>
  /\ UNCHANGED reqVars

\* The statement a request is about to execute throws (the connection is
\* lost, a lock wait times out): the catch block answers with the
\* handler's error code.  The statements before it stay committed.
statementFails(k) ==
  /\ routeReq[k].pc = "run"
  /\ routeReq' = [routeReq EXCEPT ![k] =
       [@ EXCEPT !.pc = "done", !.result = MutationError(routeReq[k].route)]]
  /\ lastOp' = "statementFails"
  /\ UNCHANGED <<today, taskActive, taskMinutes, assigneeNullable, assignments>>
  /\ UNCHANGED <<householdActive, members, rewardActive, userActive>>
  /\ UNCHANGED reqVars

\* no request of the other slot is between its statements
Alone(k) == \A j \in RouteReqs \ {k} : routeReq[j].pc \in {"idle", "done"}

\* Task 1 has an active assignment; everything else as the households
\* stand.
MutateInit ==
  /\ today = 0
  /\ taskActive = [t \in TaskIds |-> t \in StandingTasks]
  /\ taskMinutes = [t \in TaskIds |-> Task(t).difficulty_minutes]
  /\ HouseInit
  /\ assigneeNullable = TRUE
  /\ assignments = << [task_id |-> 1, assigned_to |-> 2, assigned_by |-> 1,
                       due_date |-> 0, status |-> "pending", is_active |-> TRUE] >>
  /\ lastOp = "init"
  /\ completions = << >>
  /\ rewardQty = [r \in RewardIds |-> InitialQuantity]
  /\ NoRequests

\* The three deletes, one request at a time.
MutateNext ==
  \/ \E k \in RouteReqs, actor \in Users, h \in Households :
       Alone(k) /\ deleteHouseholdStart(k, actor, h)
  \/ \E k \in RouteReqs : deleteHouseholdStep(k)
  \/ \E k \in RouteReqs, actor \in Users, t \in {1, 2} :
       Alone(k) /\ deleteTaskStart(k, actor, t)
  \/ \E k \in RouteReqs : deleteTaskStep(k)
  \/ \E k \in RouteReqs, u \in Users : Alone(k) /\ deleteAccountStart(k, u)
  \/ \E k \in RouteReqs : deleteAccountStep(k)
  \/ \E k \in RouteReqs : statementFails(k)

SpecMutate == MutateInit /\ [][MutateNext]_vars

\* the row the first statement of request k deactivates is active
FirstWriteAbsent(k) ==
  CASE routeReq[k].route = "deleteHousehold" -> householdActive[routeReq[k].household]
    [] routeReq[k].route = "deleteTask" -> taskActive[routeReq[k].task]
    [] routeReq[k].route = "deleteAccount" -> userActive[routeReq[k].user]
    [] OTHER -> TRUE

\* C27 (as claimed): a household delete, task delete or account
\* deactivation is all-or-nothing: when one of its statements fails and
\* the request ends with the handler's error, none of the writes of its
\* earlier statements remains, so the row its first statement deactivates
\* is active.
C27_AllOrNothing ==
  [][\A k \in RouteReqs :
       (routeReq[k].pc = "run" /\ routeReq'[k].pc = "done"
          /\ routeReq'[k].result \in MutationErrors)
       => FirstWriteAbsent(k)]_vars

\* ======================================================================
\* Household deletes next to the requests and jobs that read what they
\* deactivate.  As in SpendInit, user 2 has 10 points to spend in
\* household 1.
CascadeNext ==
  \/ \E k \in RouteReqs, h \in Households :
       deleteHouseholdStart(k, HouseholdCreator(h), h)
  \/ \E k \in RouteReqs : deleteHouseholdStep(k)
  \/ \E r \in HomeRewards : claimReadReward(1, 2, r)
  \/ claimReadPoints(1)
  \/ claimInsert(1)
  \/ claimDecrement(1)
  \/ claimCommit(1)
  \/ \E k \in RouteReqs : joinCheck(k, 1, 2)
  \/ \E k \in RouteReqs : joinInsert(k)
  \/ generateDailyAssignments
  \/ NextDay(1)

SpecCascade == SpendInit /\ [][CascadeNext]_vars

\* a DELETE /households/:id of household h has answered with success
Deleted(h) ==
  \E k \in RouteReqs :
    /\ routeReq[k].route = "deleteHousehold"
    /\ routeReq[k].household = h
    /\ routeReq[k].result = "success"

\* the household and every membership, task and reward of it are inactive
AllInactive(h) ==
  /\ ~ householdActive[h]
  /\ \A i \in MembershipIds : members[i].household_id = h => ~ members[i].is_active
  /\ \A t \in TaskIds : Task(t).household_id = h => ~ taskActive[t]
  /\ \A r \in RewardIds : Reward(r).household_id = h => ~ rewardActive[r]

\* C28 (as claimed): once a household delete has succeeded, the household
\* and all its memberships, tasks and rewards are inactive, no assignment
\* is created for any of its tasks and no claim on any of its rewards is
\* committed.
C28_DeleteCascades ==
  [][\A h \in Households :
       Deleted(h)' =>
         /\ AllInactive(h)'
         /\ Deleted(h) =>
              /\ \A i \in DOMAIN assignments' \ DOMAIN assignments :
                   Task(assignments'[i].task_id).household_id # h
              /\ \A c \in claims' \ claims : Reward(c.reward_id).household_id # h]_vars

\* ======================================================================
\* PUT /completions/:id.  Times are hours; the request's clock reading is
\* an input that never runs backwards.  The comment of the body is
\* optional: "undefined" stands for a body without one.
EditHours == (MaxEditHour - 3)..MaxEditHour
EditComments == {"tidy", "redone", "undefined"}

\* hoursDiff > 25
EditExpiredLate(hoursDiff) == hoursDiff > 25

\* the 24 hour test: hoursDiff > 24
EditExpired(hoursDiff) == hoursDiff > 24

\* the completion query: the row exists and the requester completed it
OwnCompletion(actor, id) ==
  /\ id \in CompletionIds
  /\ completions[id].completed_by = actor

\* the answer of PUT /completions/:id; a bound parameter that is undefined
\* makes pool.execute throw, which the catch block answers
UpdateCompletionResult(actor, id, comment, now) ==
  IF ~ OwnCompletion(actor, id) THEN "COMPLETION_NOT_FOUND"
  ELSE IF EditExpired(now - completions[id].completed_at) THEN "EDIT_TIME_EXPIRED"
  ELSE IF comment = "undefined" THEN "UPDATE_COMPLETION_ERROR"
  ELSE "success"

\* PUT /completions/:id, the whole handler; slot 1 keeps the last request
updateCompletion(actor, id, comment, now) ==
  /\ userActive[actor]
  /\ now >= routeReq[1].now
  /\ LET res == UpdateCompletionResult(actor, id, comment, now) IN
     /\ routeReq' = [routeReq EXCEPT ![1] =
          [RouteIdle EXCEPT !.pc = "done", !.route = "updateCompletion", !.user = actor,
                            !.completion = id, !.comment = comment, !.now = now,
                            !.result = res]]
     /\ completions' = IF res = "success"
                       THEN [completions EXCEPT ![id].comment = comment]
                       ELSE completions
  /\ lastOp' = "updateCompletion"
  /\ UNCHANGED <<today, taskActive, taskMinutes, assigneeNullable, assignments>>
  /\ UNCHANGED <<householdActive, members, rewardActive, userActive>>
  /\ UNCHANGED <<rewardQty, claims, nextClaimId, rewardLock, claimReq, opReq,
                 assignLock, complReq, ledger>>

\* User 2 completed assignment 1 (task 3) at hour 0, user 3 completed
\* assignment 2 (task 1) at hour 2; neither left a comment.
EditInit ==
  /\ today = 0
  /\ taskActive = [t \in TaskIds |-> t \in StandingTasks]
  /\ taskMinutes = [t \in TaskIds |-> Task(t).difficulty_minutes]
  /\ HouseInit
  /\ assigneeNullable = TRUE
  /\ assignments = <<[task_id |-> 3, assigned_to |-> 2, assigned_by |-> 1,
                      due_date |-> 0, status |-> "completed", is_active |-> TRUE],
                     [task_id |-> 1, assigned_to |-> 3, assigned_by |-> 1,
                      due_date |-> 0, status |-> "completed", is_active |-> TRUE]>>
  /\ completions = <<[task_id |-> 3, assignment_id |-> 1, completed_by |-> 2,
                      points_earned |-> Task(3).difficulty_minutes,
                      completed_at |-> 0, comment |-> ""],
                     [task_id |-> 1, assignment_id |-> 2, completed_by |-> 3,
                      points_earned |-> Task(1).difficulty_minutes,
                      completed_at |-> 2, comment |-> ""]>>
  /\ lastOp = "init"
  /\ rewardQty = [r \in RewardIds |-> InitialQuantity]
  /\ NoRequests

EditNext ==
  \E actor \in Users, id \in 1..3, comment \in EditComments, now \in EditHours :
    updateCompletion(actor, id, comment, now)

SpecEdit == EditInit /\ [][EditNext]_vars

\* C31: no step adds or removes a completion or changes anything of a
\* completion but its comment; a comment changes only to the comment of
\* a PUT /completions/:id sent by the completer at most 24 hours after
\* completed_at; a request that is refused leaves every completion as it
\* was.
C31_CommentOnlyInWindow ==
  [][/\ DOMAIN completions' = DOMAIN completions
     /\ \A i \in CompletionIds :
          /\ [completions'[i] EXCEPT !.comment = completions[i].comment] = completions[i]
          /\ completions'[i].comment # completions[i].comment =>
               /\ routeReq'[1].route = "updateCompletion"
               /\ routeReq'[1].completion = i
               /\ routeReq'[1].user = completions[i].completed_by
               /\ routeReq'[1].now - completions[i].completed_at <= 24
               /\ completions'[i].comment = routeReq'[1].comment
     /\ (lastOp' = "updateCompletion" /\ routeReq'[1].result # "success")
          => completions' = completions]_vars

\* a comment has been set exactly 24 hours after the completion
C31_Witness ==
  /\ routeReq[1].route = "updateCompletion"
  /\ routeReq[1].result = "success"
  /\ routeReq[1].now - completions[routeReq[1].completion].completed_at = 24
  /\ completions[routeReq[1].completion].comment = "tidy"

\* ======================================================================
\* PUT /assignments/:id/status in its two statements: the assignment query
\* with the checks that follow it, then the UPDATE, which names the row by
\* assignment_id alone.

\* the query and the two checks
statusRead(k, actor, i, st) ==
  /\ routeReq[k].pc = "idle"
  /\ userActive[actor]
  /\ LET req == [RouteIdle EXCEPT !.route = "updateStatus", !.user = actor,
                                  !.assignment = i, !.status = st] IN
     routeReq' = [routeReq EXCEPT ![k] =
       IF ~ AssignmentFound(i, actor)
       THEN [req EXCEPT !.pc = "done", !.result = "ASSIGNMENT_NOT_FOUND"]
       ELSE IF AlreadyCompleted(i)
       THEN [req EXCEPT !.pc = "done", !.result = "ASSIGNMENT_ALREADY_COMPLETED"]
       ELSE [req EXCEPT !.pc = "update"]]
  /\ lastOp' = "status"
  /\ UNCHANGED <<today, taskActive, taskMinutes, assigneeNullable, assignments>>
  /\ UNCHANGED <<householdActive, members, rewardActive, userActive>>
  /\ UNCHANGED reqVars

\* UPDATE task_assignments SET status = ? WHERE assignment_id = ?; it
\* waits for the row lock of a completing transaction
statusWrite(k) ==
  /\ routeReq[k].pc = "update"
  /\ routeReq[k].route = "updateStatus"
  /\ routeReq[k].assignment \notin LockedAssignments
  /\ assignments' = [assignments EXCEPT ![routeReq[k].assignment].status = routeReq[k].status]
  /\ routeReq' = [routeReq EXCEPT ![k] = [@ EXCEPT !.pc = "done", !.result = "success"]]
  /\ lastOp' = "status"
  /\ UNCHANGED <<today, taskActive, taskMinutes, assigneeNullable>>
  /\ UNCHANGED <<householdActive, members, rewardActive, userActive>>
  /\ UNCHANGED reqVars

\* Completion, status update and cancellation of assignment 1 by its
\* assignee, user 2, next to the overdue sweeper.
ReopenNext ==
  \/ \E k \in ComplReqs : completeRead(k, "plain", 2, 1, NULL, FALSE)
  \/ \E k \in ComplReqs : completeInsert(k)
  \/ \E k \in ComplReqs : completeUpdate(k)
  \/ \E k \in ComplReqs : completeCommit(k)
  \/ \E k \in RouteReqs : statusRead(k, 2, 1, "in_progress")
  \/ \E k \in RouteReqs : statusWrite(k)
  \/ cancelAssignment(2, 1)
  \/ markOverdueAssignments
  \/ NextDay(1)

SpecReopen == ComplInit /\ [][ReopenNext]_vars

\* C32 (as claimed): an assignment whose status is completed keeps that
\* status in every step.
C32_CompletedTerminal ==
  [][\A i \in AssignmentIds :
       assignments[i].status = "completed" => assignments'[i].status = "completed"]_vars

\* ======================================================================
\* User 2 has completed one assignment of task 3 (20 points); nobody has
\* claimed a reward.
OverdraftInit ==
  /\ today = 0
  /\ taskActive = [t \in TaskIds |-> t \in StandingTasks]
  /\ taskMinutes = [t \in TaskIds |-> Task(t).difficulty_minutes]
  /\ HouseInit
  /\ assigneeNullable = TRUE
  /\ assignments = <<[task_id |-> 3, assigned_to |-> 2, assigned_by |-> 1,
                      due_date |-> 0, status |-> "completed", is_active |-> TRUE]>>
  /\ completions = <<[task_id |-> 3, assignment_id |-> 1, completed_by |-> 2,
                      points_earned |-> Task(3).difficulty_minutes]>>
  /\ lastOp = "init"
  /\ rewardQty = [r \in RewardIds |-> InitialQuantity]
  /\ NoRequests

SpecOverdraft == OverdraftInit /\ [][SpendNext]_vars

\* C33 (as claimed): for every user the points spent on fulfilled claims
\* never exceed the points earned by completions.
C33_NoOverdraft == \A u \in Users : SpentBy(u) <= EarnedBy(u)

\* ======================================================================
\* Only the two cyclic tasks are active: task 1 (daily) and task 3
\* (weekly), both of household 1 with its three standing members; no
\* assignment exists and none is created by hand.
RotateInit ==
  /\ today = 0
  /\ taskActive = [t \in TaskIds |-> t \in {1, 3}]
  /\ taskMinutes = [t \in TaskIds |-> Task(t).difficulty_minutes]
  /\ HouseInit
  /\ assigneeNullable \in BOOLEAN
  /\ assignments = << >>
  /\ lastOp = "init"
  /\ completions = << >>
  /\ rewardQty = [r \in RewardIds |-> InitialQuantity]
  /\ NoRequests

\* Each job runs at most once in a period of its own: the weekly job on a
\* Monday (cron '0 6 * * 1') before anything else, the daily job (cron
\* '0 6 * * *') once a day.  A job may also miss its period.
RotateNext ==
  \/ /\ WEEKDAY(today) = 0
     /\ lastOp \in {"init", "tick"}
     /\ generateWeeklyAssignments
  \/ /\ lastOp \in {"init", "tick", "weekly"}
     /\ generateDailyAssignments
  \/ NextDay(MaxWeeklyDay)

SpecRotate == RotateInit /\ [][RotateNext]_vars

\* the assignments of task t, in the order of their creation
RowsOf(t) == SelectSeq(assignments, LAMBDA a : a.task_id = t)

\* the numbers of assignments of cyclic task t given to any two members
\* differ by at most 1, and any N assignments created one after the other,
\* N being the number of members, go to N different members
RotationKept(t) ==
  LET mem == ActiveMembers(Task(t).household_id)
      n == Cardinality(mem)
      rows == RowsOf(t) IN
  /\ \A u, v \in mem : AssignmentCount(t, u) - AssignmentCount(t, v) <= 1
  /\ \A k \in 1..Len(rows) :
       k + n - 1 <= Len(rows) =>
         {rows[j].assigned_to : j \in k..(k + n - 1)} = mem

\* the run of a job in a period of its own gives task t one assignment
OnePerPeriod(t) == Cardinality(NewRowsOf(t)) = 1

\* C34 (as claimed): the rotation of a cyclic task stays balanced, and
\* since every run in a period of its own assigns the task once, N
\* consecutive periods assign every member exactly once.
C34_RotationBalanced ==
  [][/\ RotationKept(1)' /\ RotationKept(3)'
     /\ DailyStep => OnePerPeriod(1)
     /\ WeeklyStep => OnePerPeriod(3)]_vars

\* ======================================================================
\* C35 (as claimed): every assignment a generator run creates for a user
\* goes to a user who is an active member of the task's household when
\* the run creates it.
C35_GeneratedForMembers ==
  [][(DailyStep \/ WeeklyStep) =>
       \A i \in NewRowIds :
         assignments'[i].assigned_to # NULL =>
           IsActiveMember(Task(assignments'[i].task_id).household_id,
                          assignments'[i].assigned_to)]_vars

\* the selected tasks of the job that runs in this step
SelectedNow == IF lastOp' = "daily" THEN DailySelected ELSE WeeklySelected

\* C36 (as claimed): when a generator run meets a task without a
\* resolvable assignee, every other task it selects that has one still
\* gets its assignment in that run.
C36_OthersNotBlocked ==
  [][((DailyStep \/ WeeklyStep) /\ \E s \in SelectedNow : NewAssignee(s) = NULL) =>
       \A t \in SelectedNow :
         NewAssignee(t) # NULL => Cardinality(NewRowsOf(t)) = 1]_vars

\* C37 (as claimed): no step changes the status of an assignment that has
\* been cancelled (is_active = 0).
C37_CancelledFrozen ==
  [][\A i \in AssignmentIds :
       ~ assignments[i].is_active => assignments'[i].status = assignments[i].status]_vars

\* ======================================================================
\* the requests of kind k that run their read in this step, and those
\* that run their write
OpReads(k) == {p \in OpReqs : opReq[p].pc = "idle" /\ opReq'[p].kind = k}
OpWrites(k) == {p \in OpReqs : opReq[p].pc = "write" /\ opReq'[p].pc = "done"
                                /\ opReq[p].kind = k}

\* nothing but reward_claims changes
ClaimsOnly ==
  /\ rewardQty' = rewardQty
  /\ rewardActive' = rewardActive
  /\ completions' = completions

\* every claim but claim id is as it was
OthersKept(id) ==
  /\ \A c \in claims : c.claim_id # id => c \in claims'
  /\ \A c \in claims' : c.claim_id # id => c \in claims

\* C38: a reject or cancel request that finds the claim not pending, and
\* a cancel request of anyone but the claimant, is refused and changes
\* nothing; the UPDATE of a reject sets that claim to cancelled and the
\* DELETE of a cancel removes that claim, and neither changes another
\* claim, a completion, a reward or a reward's quantity.
C38_RejectCancelFrame ==
  [][/\ \A p \in OpReads("reject") \cup OpReads("cancel") :
          LET id == opReq'[p].claim_id IN
          /\ claims' = claims /\ ClaimsOnly
          /\ (ClaimExists(id) /\ ClaimRow(id).status # "pending") =>
               /\ opReq'[p].pc = "done"
               /\ opReq'[p].result \in {"INVALID_STATUS", "PERMISSION_DENIED"}
          /\ (ClaimExists(id) /\ opReq'[p].kind = "cancel"
                /\ ClaimRow(id).claimed_by # opReq'[p].actor) =>
               /\ opReq'[p].pc = "done"
               /\ opReq'[p].result = "PERMISSION_DENIED"
     /\ \A p \in OpWrites("reject") :
          LET id == opReq[p].claim_id IN
          /\ ClaimsOnly /\ OthersKept(id)
          /\ ClaimExists(id) =>
               \E c \in claims' :
                 /\ c.claim_id = id /\ c.status = "cancelled"
                 /\ c.reward_id = ClaimRow(id).reward_id
                 /\ c.claimed_by = ClaimRow(id).claimed_by
                 /\ c.points_spent = ClaimRow(id).points_spent
     /\ \A p \in OpWrites("cancel") :
          LET id == opReq[p].claim_id IN
          /\ ClaimsOnly /\ OthersKept(id)
          /\ \A c \in claims' : c.claim_id # id]_vars

\* a claim has been rejected and its reward's quantity has stayed at what
\* the claim left, and a later request on it has been refused
C38_Witness ==
  /\ \E c \in claims : c.status = "cancelled" /\ rewardQty[c.reward_id] = InitialQuantity - 1
  /\ \E p \in OpReqs : opReq[p].kind \in {"reject", "cancel"} /\ opReq[p].result = "INVALID_STATUS"

====
